---- MODULE Spec2Model ----
(***************************************************************************)
(* Tether: the presence store (src/src/store/presence.go), the gateway     *)
(* adapter that feeds it (handleRawPresence, MergeRawUser, ...) and the    *)
(* fan-out socket server (src/src/websocket/server.go).                    *)
(*                                                                         *)
(* Every critical section guarded by the store's RWMutex is one atomic     *)
(* action.  The fan-out loop of PresenceStore.broadcast holds the read     *)
(* lock over several channel sends, so it is split into one action per     *)
(* send; rlock is the set of tasks inside that loop and every action that  *)
(* needs the write lock is disabled while rlock is not empty.              *)
(***************************************************************************)
EXTENDS Integers, Sequences, FiniteSets, TLC

(***************************************************************************)
(* Bounds of the model.                                                    *)
(***************************************************************************)
MaxEvents == 2         \* gateway events handled in one behaviour of Spec
MaxFanoutEvents == 2   \* gateway events handled in one behaviour of SpecFanout
MaxCancels == 2        \* calls of one subscriber's cancel function
MaxSocketEvents == 2   \* gateway events handled in one behaviour of SpecSocket
MaxInits == 2          \* Initialize frames read in one behaviour of SpecSocket
MaxBurst == 2          \* gateway events handled in one behaviour of SpecBurst
MaxBeats == 2          \* Heartbeat frames read in one behaviour
MaxProtoEvents == 1    \* gateway events handled in one behaviour of SpecProtocol
MaxProtoInits == 1     \* Initialize frames read in one behaviour of SpecProtocol
MaxAdvances == 4       \* steps of the clock in one behaviour of SpecHeartbeat
MaxHbInits == 1        \* Initialize frames read in one behaviour of SpecHeartbeat
MaxMutexEvents == 1    \* gateway events handled in one behaviour of SpecMutex
MaxMutexInits == 1     \* Initialize frames read in one behaviour of SpecMutex
MaxMergeEvents == 2    \* gateway events handled in one behaviour of SpecMerge
MaxActivities == 2     \* entries of the activities list of a payload of SpecBuild
MaxProjEvents == 2     \* gateway events handled in one behaviour of SpecProjection
MaxSnapEvents == 2     \* gateway events handled in one behaviour of SpecSnapshot
MaxRequests == 13      \* HTTP requests entering the rate limiter in one behaviour of SpecLimiter
MaxTicks == 2          \* advances of the clock in one behaviour of SpecLimiter
MaxPanicEvents == 1    \* gateway events handled in one behaviour of SpecPanic
MaxConsumerEvents == 2 \* gateway events handled in one behaviour of SpecConsumer
MaxCloses == 2         \* calls of Server.Close in one behaviour
MaxCloseEvents == 1    \* gateway events handled in one behaviour of SpecClose
MaxPanicInits == 1     \* Initialize frames read in one behaviour of SpecPanic
MaxQuietEvents == 2    \* gateway events handled in one behaviour of SpecQuiet
MaxCleanupEvents == 1  \* gateway events handled in one behaviour of SpecCleanup
MaxCleanupInits == 1   \* Initialize frames read after the first in one behaviour of SpecCleanup
MaxCleanupTicks == 2   \* steps of the clock in one behaviour of SpecCleanup
MaxLockEvents == 1     \* gateway events handled in one behaviour of SpecLocks
MaxLockInits == 1      \* Initialize frames read after the first in one behaviour of SpecLocks
MaxStaleEvents == 2    \* gateway events handled in one behaviour of SpecStale
MaxStaleInits == 1     \* Initialize frames read after the first in one behaviour of SpecStale
MaxSeqEvents == 2      \* gateway events handled in one behaviour of SpecSeq
MaxSeqInits == 1       \* Initialize frames read after the first in one behaviour of SpecSeq
MaxBlockedEvents == 1  \* gateway events handled in one behaviour of SpecBlocked
MaxBlockedInits == 1   \* Initialize frames read after the first in one behaviour of SpecBlocked

(***************************************************************************)
(* Program constants.                                                      *)
(***************************************************************************)
ChanCap == 16       \* make(chan PresenceEvent, 16)

Users == {"1", "2"}
Tasks == {"g1", "g2"}          \* goroutines running gateway handlers
Clients == {"s1", "s2"}        \* holders of a store subscription
Conns == {"c1", "c2"}          \* websocket connections
Threads == {"bc"} \cup Conns   \* the broadcast consumer and each connection's reader
NoWatcher == -1

(***************************************************************************)
(* Go values.  A slice is nil or a list; a *Spotify is nil or a struct.    *)
(***************************************************************************)
NilSlice == [isNil |-> TRUE, items |-> << >>]
MkSlice(s) == [isNil |-> FALSE, items |-> s]

NilSpotify == [isNil |-> TRUE, TrackID |-> ""]
MkSpotify(track) == [isNil |-> FALSE, TrackID |-> track]

\* a URL of the Discord CDN, by its parts; the empty string is NoURL
NoURL == [path |-> "", id |-> "", avatar |-> "", index |-> 0, ext |-> "", size |-> 0]

\* an `any` holding nil
NilAny == "nil"

\* DiscordUser{}
ZeroUser ==
  [ID |-> "", Username |-> "", GlobalName |-> "", DisplayName |-> "",
   Avatar |-> "", Discriminator |-> "", AvatarURL |-> NoURL,
   AvatarDecorationData |-> NilAny, PrimaryGuild |-> NilAny,
   Collectibles |-> NilAny, DisplayNameStyles |-> NilAny,
   Bot |-> FALSE, PublicFlags |-> 0]

ZeroPublic ==
  [Status |-> "", Activities |-> NilSlice,
   Clients |-> [Active |-> NilSlice, Primary |-> ""],
   DiscordUser |-> ZeroUser, Spotify |-> NilSpotify]

\* PresenceData{}
ZeroPresence ==
  [ActiveOnDiscordMobile |-> FALSE, ActiveOnDiscordDesktop |-> FALSE,
   ActiveOnDiscordWeb |-> FALSE, ActiveOnDiscordEmbedded |-> FALSE,
   ListeningToSpotify |-> FALSE,
   ActiveClients |-> NilSlice, PrimaryActiveClient |-> "",
   Spotify |-> NilSpotify, DiscordUser |-> ZeroUser, DiscordStatus |-> "",
   Activities |-> NilSlice, Public |-> ZeroPublic]

(***************************************************************************)
(* store/presence.go: the public projection.                               *)
(***************************************************************************)
\* a filter that knows Spotify by the activity type only
isSpotifyActivityTypeOnly(act) == act.type = 2

isSpotifyActivity(act) == act.type = 2 \/ act.name = "Spotify"

RECURSIVE FilterActivities(_)
FilterActivities(acts) ==
  IF acts = << >> THEN << >>
  ELSE IF isSpotifyActivity(Head(acts)) THEN FilterActivities(Tail(acts))
       ELSE <<Head(acts)>> \o FilterActivities(Tail(acts))

buildPublicPresence(p) ==
  [Status |-> p.DiscordStatus,
   Clients |-> [Active |-> IF p.ActiveClients.isNil THEN MkSlice(<< >>) ELSE p.ActiveClients,
                Primary |-> p.PrimaryActiveClient],
   Activities |-> MkSlice(FilterActivities(p.Activities.items)),
   Spotify |-> p.Spotify,
   DiscordUser |-> p.DiscordUser]

normalizePresence(p) == [p EXCEPT !.Public = buildPublicPresence(p)]

(***************************************************************************)
(* Raw gateway payloads (decoded JSON).  A map that is absent or not an    *)
(* object has has = FALSE; a missing string key reads as "".               *)
(***************************************************************************)
RawUser(id, username, global_name) ==
  [has |-> TRUE, id |-> id, username |-> username, global_name |-> global_name]
NoRawUser == [has |-> FALSE, id |-> "", username |-> "", global_name |-> ""]

RawMember(display_name, user) == [has |-> TRUE, display_name |-> display_name, user |-> user]
NoRawMember == [has |-> FALSE, display_name |-> "", user |-> NoRawUser]

\* an entry of a raw activities list: a JSON object with its type, name,
\* sync_id and track_id (an absent key reads as 0 or ""), or some other value
RawActivity(type, name, sync_id, track_id) ==
  [isObject |-> TRUE, type |-> type, name |-> name, sync_id |-> sync_id, track_id |-> track_id]
NotAnObject == [isObject |-> FALSE, type |-> 0, name |-> "", sync_id |-> "", track_id |-> ""]

GameActivity == RawActivity(0, "Game", "", "")
SpotifyActivity == RawActivity(2, "Spotify", "abc", "")

\* payload["client_status"]: nil (absent, null or not an object) or a map
\* from platform to status, an absent platform reading as ""
NilClientStatus == [isNil |-> TRUE, desktop |-> "", mobile |-> "", web |-> "", embedded |-> ""]
ClientStatus(desktop, mobile, web, embedded) ==
  [isNil |-> FALSE, desktop |-> desktop, mobile |-> mobile, web |-> web, embedded |-> embedded]

\* strings.ToLower on the status strings the gateway sends
ToLower(s) ==
  CASE s = "DND" -> "dnd"
    [] s = "Online" -> "online"
    [] OTHER -> s

(***************************************************************************)
(* utils: merge helpers and field extraction.                              *)
(***************************************************************************)
MergeStringField(target, source) == IF source # "" THEN source ELSE target

MergeIntField(target, source) == IF source # 0 THEN source ELSE target

MergeAnyField(target, source) == IF source # NilAny THEN source ELSE target

FirstNonEmpty(a, b) == IF a # "" THEN a ELSE b

\* utils.GetInt64 applied to a Go string: the type switch has cases for the
\* numeric types and json.Number only, so every string gives 0
GetInt64(str) == 0

\* strings.HasPrefix(avatar, "a_") on the avatar hashes of the model
HasAnimatedPrefix(avatar) == avatar \in {"a_1"}

\* utils.BuildAvatarURL
BuildAvatarURL(userID, avatar, discriminator) ==
  IF avatar # ""
    THEN [path |-> "avatars", id |-> userID, avatar |-> avatar, index |-> 0,
          ext |-> IF HasAnimatedPrefix(avatar) THEN "gif" ELSE "webp",
          size |-> IF HasAnimatedPrefix(avatar) THEN 64 ELSE 256]
    ELSE LET index == IF discriminator = "0" \/ discriminator = ""
                        THEN IF userID # "" THEN (GetInt64(userID) \div 4194304) % 6 ELSE 0
                        ELSE GetInt64(discriminator) % 5
         IN [path |-> "embed/avatars", id |-> "", avatar |-> "", index |-> index,
             ext |-> "png", size |-> 128]

\* utils.ExtractUserID(payload): payload["user"].(map)["id"] as a string
ExtractUserID(payload) == IF payload.user.has THEN payload.user.id ELSE ""

\* utils.ExtractStringField(m, "id"); a nil map has no keys
ExtractStringField(m) == IF m.has THEN m.id ELSE ""

(***************************************************************************)
(* lib: identity.                                                          *)
(***************************************************************************)
hasIdentityFields(user) ==
  user.has /\ (user.username # "" \/ user.global_name # "")

pickUserMap(user, member) ==
  IF hasIdentityFields(user) THEN user
  ELSE IF member.has /\ member.user.has /\ hasIdentityFields(member.user) THEN member.user
  ELSE IF user.has THEN user
  ELSE IF member.has /\ member.user.has THEN member.user
  ELSE NoRawUser

\* the raw maps of the model carry id, username and global_name (and the
\* member display_name): every other key is absent and reads as "", 0, false or nil
discordUserFromRaw(user, member) ==
  LET du == [ZeroUser EXCEPT
               !.ID = ExtractStringField(user),
               !.Username = user.username,
               !.GlobalName = user.global_name,
               !.DisplayName = IF member.has /\ member.display_name # ""
                                 THEN member.display_name ELSE ""]
  IN [du EXCEPT !.AvatarURL = BuildAvatarURL(du.ID, du.Avatar, du.Discriminator)]

\* a merge in which the incoming value always replaces the stored one
MergeDiscordUserOverwrite(base, incoming) ==
  LET d == IF incoming.DisplayName = ""
             THEN [incoming EXCEPT !.DisplayName = FirstNonEmpty(incoming.GlobalName, incoming.Username)]
             ELSE incoming
  IN [d EXCEPT !.AvatarURL = BuildAvatarURL(d.ID, d.Avatar, d.Discriminator)]

MergeDiscordUser(base, incoming) ==
  LET m == [ID |-> MergeStringField(base.ID, incoming.ID),
            Username |-> MergeStringField(base.Username, incoming.Username),
            GlobalName |-> MergeStringField(base.GlobalName, incoming.GlobalName),
            DisplayName |-> MergeStringField(base.DisplayName, incoming.DisplayName),
            Avatar |-> MergeStringField(base.Avatar, incoming.Avatar),
            Discriminator |-> MergeStringField(base.Discriminator, incoming.Discriminator),
            AvatarDecorationData |-> MergeAnyField(base.AvatarDecorationData, incoming.AvatarDecorationData),
            PrimaryGuild |-> MergeAnyField(base.PrimaryGuild, incoming.PrimaryGuild),
            Collectibles |-> MergeAnyField(base.Collectibles, incoming.Collectibles),
            DisplayNameStyles |-> MergeAnyField(base.DisplayNameStyles, incoming.DisplayNameStyles),
            Bot |-> incoming.Bot \/ base.Bot,
            PublicFlags |-> MergeIntField(base.PublicFlags, incoming.PublicFlags),
            AvatarURL |-> base.AvatarURL]
      d == IF m.DisplayName = ""
             THEN [m EXCEPT !.DisplayName = FirstNonEmpty(m.GlobalName, m.Username)]
             ELSE m
  IN [d EXCEPT !.AvatarURL = BuildAvatarURL(d.ID, d.Avatar, d.Discriminator)]

(***************************************************************************)
(* lib: building a presence from a raw PRESENCE_UPDATE-like payload.       *)
(***************************************************************************)
\* utils.IsSpotifyActivity and utils.GetSpotifyTrackID, on an object
IsSpotifyActivity(act) == act.type = 2 \/ act.name = "Spotify"

GetSpotifyTrackID(act) == IF act.sync_id # "" THEN act.sync_id ELSE act.track_id

\* utils.ClientStatusActive
ClientStatusActive(status, platform) == ~status.isNil /\ status[platform] # ""

RECURSIVE Objects(_)
\* the entries of a raw list that are JSON objects, in order
Objects(raw) ==
  IF raw = << >> THEN << >>
  ELSE IF Head(raw).isObject THEN <<Head(raw)>> \o Objects(Tail(raw))
       ELSE Objects(Tail(raw))

patchActivitiesFromRaw(prev, rawActivities) ==
  IF Len(rawActivities) = 0 THEN prev
  ELSE LET acts == Objects(rawActivities)
       IN IF Len(acts) > 0 THEN [prev EXCEPT !.Activities = MkSlice(acts)] ELSE prev

RECURSIVE FirstSpotifyTrack(_)
\* the track id of the first Spotify activity that carries one, else ""
FirstSpotifyTrack(acts) ==
  IF acts = << >> THEN ""
  ELSE IF Head(acts).isObject /\ IsSpotifyActivity(Head(acts))
            /\ GetSpotifyTrackID(Head(acts)) # ""
         THEN GetSpotifyTrackID(Head(acts))
       ELSE FirstSpotifyTrack(Tail(acts))

patchSpotifyFromRaw(prev, rawActivities) ==
  LET track == FirstSpotifyTrack(rawActivities)
  IN IF track = "" THEN prev ELSE [prev EXCEPT !.Spotify = MkSpotify(track)]

RECURSIVE hasSpotifyActivity(_)
hasSpotifyActivity(rawActivities) ==
  IF rawActivities = << >> THEN FALSE
  ELSE IF Head(rawActivities).isObject /\ IsSpotifyActivity(Head(rawActivities)) THEN TRUE
       ELSE hasSpotifyActivity(Tail(rawActivities))

\* a builder that flags listening_to_spotify from the Spotify object alone
BuildPresenceFromRawSpotifyOnly(payload, user, member) ==
  LET id0 == ExtractUserID(payload)
      userID == IF id0 = "" /\ user.has THEN ExtractStringField(user) ELSE id0
      st0 == ToLower(payload.status)
      status == IF st0 = "" THEN "offline" ELSE st0
      clientStatus == payload.client_status
      p0 == [ZeroPresence EXCEPT
               !.ActiveOnDiscordDesktop = ClientStatusActive(clientStatus, "desktop"),
               !.ActiveOnDiscordMobile = ClientStatusActive(clientStatus, "mobile"),
               !.ActiveOnDiscordWeb = ClientStatusActive(clientStatus, "web"),
               !.ActiveOnDiscordEmbedded = ClientStatusActive(clientStatus, "embedded"),
               !.DiscordStatus = status]
      p1 == patchActivitiesFromRaw(p0, payload.activities)
      p2 == patchSpotifyFromRaw(p1, payload.activities)
      p3 == [p2 EXCEPT !.ListeningToSpotify = ~p2.Spotify.isNil]
      u1 == pickUserMap(user, member)
      u2 == IF ~u1.has \/ ~member.has
              THEN pickUserMap(IF u1.has THEN u1 ELSE payload.user,
                               IF member.has THEN member ELSE payload.member)
              ELSE u1
      m2 == IF member.has THEN member ELSE payload.member
  IN IF userID = "" \/ status = "offline"
       THEN <<ZeroPresence, userID, FALSE>>
       ELSE <<[p3 EXCEPT !.DiscordUser = discordUserFromRaw(u2, m2)], userID, TRUE>>

\* <<presence, userID, ok>>
BuildPresenceFromRaw(payload, user, member) ==
  LET id0 == ExtractUserID(payload)
      userID == IF id0 = "" /\ user.has THEN ExtractStringField(user) ELSE id0
      st0 == ToLower(payload.status)
      status == IF st0 = "" THEN "offline" ELSE st0
      clientStatus == payload.client_status
      p0 == [ZeroPresence EXCEPT
               !.ActiveOnDiscordDesktop = ClientStatusActive(clientStatus, "desktop"),
               !.ActiveOnDiscordMobile = ClientStatusActive(clientStatus, "mobile"),
               !.ActiveOnDiscordWeb = ClientStatusActive(clientStatus, "web"),
               !.ActiveOnDiscordEmbedded = ClientStatusActive(clientStatus, "embedded"),
               !.DiscordStatus = status]
      p1 == patchActivitiesFromRaw(p0, payload.activities)
      p2 == patchSpotifyFromRaw(p1, payload.activities)
      p3 == [p2 EXCEPT !.ListeningToSpotify = ~p2.Spotify.isNil \/ hasSpotifyActivity(payload.activities)]
      u1 == pickUserMap(user, member)
      u2 == IF ~u1.has \/ ~member.has
              THEN pickUserMap(IF u1.has THEN u1 ELSE payload.user,
                               IF member.has THEN member ELSE payload.member)
              ELSE u1
      m2 == IF member.has THEN member ELSE payload.member
  IN IF userID = "" \/ status = "offline"
       THEN <<ZeroPresence, userID, FALSE>>
       ELSE <<[p3 EXCEPT !.DiscordUser = discordUserFromRaw(u2, m2)], userID, TRUE>>

(***************************************************************************)
(* Inputs: the payloads the gateway delivers.                              *)
(***************************************************************************)
PresenceUpdate(user, status, activities) ==
  [user |-> user, status |-> status, activities |-> activities, member |-> NoRawMember,
   client_status |-> NilClientStatus]

PresencePayloads ==
  { PresenceUpdate(RawUser(u, "x", ""), "online", << >>) : u \in Users }
    \cup { PresenceUpdate(RawUser(u, "", ""), "DND", <<SpotifyActivity, GameActivity>>) : u \in Users }
    \cup { PresenceUpdate(RawUser(u, "", ""), "offline", << >>) : u \in Users }
    \cup { PresenceUpdate(NoRawUser, "online", << >>) }

\* GUILD_MEMBER_ADD / GUILD_MEMBER_UPDATE: <<user, member>> as ExtractRawIdentity returns them
MemberPayloads ==
  { <<RawUser(u, "", "X"), RawMember("Mr X", NoRawUser)>> : u \in Users }
    \cup { <<RawUser("", "", "X"), NoRawMember>> }

\* GUILD_MEMBER_REMOVE
RemovePayloads == { [user |-> RawUser(u, "", "")] : u \in Users } \cup { [user |-> NoRawUser] }

\* GUILD_MEMBERS_CHUNK: the members array and the presences array
Chunk(members, presences) == [members |-> members, presences |-> presences]

ChunkMember(u) == RawMember("Mr X", RawUser(u, "", "X"))

ChunkPayloads ==
  { Chunk(<<ChunkMember(u)>>, <<PresenceUpdate(RawUser(u, "", ""), "online", << >>)>>) : u \in Users }
    \cup { Chunk(<<ChunkMember("1"), ChunkMember("2")>>,
                 <<PresenceUpdate(RawUser("1", "", ""), "Online", <<GameActivity>>),
                   PresenceUpdate(RawUser("2", "", ""), "offline", << >>)>>) }

NoChunk == Chunk(<< >>, << >>)
NoTaken == [on |-> FALSE, payload |-> NoChunk, before |-> << >>, depth |-> << >>]

VARIABLES
  data,           \* PresenceStore.data: the map userID -> PresenceData
  watchers,       \* keys of PresenceStore.watchers
  chans,          \* the buffer of the channel created for each watcher id
  closed,         \* how often close() was called on each channel
  nextWatcherID,  \* PresenceStore.nextWatcherID
  rlock,          \* tasks holding PresenceStore.mu in read mode inside broadcast
  pc,             \* where each gateway task stands
  kind,           \* the type of the gateway event it is handling (ev.Type)
  taken,          \* history, kept where Init turns it on: the payload of that event,
                  \* the map and the depth of the channels when it was taken
  op,             \* the store call a task is in or has last returned from
  uid,            \* its userID
  pres,           \* the presence it passed to the store
  evt,            \* the event it is broadcasting
  todo,           \* watchers the fan-out loop has not visited yet
  work,           \* the chunk a task is importing: entries not handled yet
  lookup,         \* buildMemberLookup of that chunk
  limit,          \* how many gateway events the behaviour takes
  sub,            \* the watcher id each client got from Subscribe
  events,         \* gateway events taken so far
  commits,        \* history: number of committed SetPresence / RemovePresence
  lastWrite,      \* history: the task whose write to a user was committed last
  had,            \* history: the user had an entry when the task's event was taken
  fanout,         \* history: the watchers the task's fan-out loop started with
  delivered,      \* history: what the task's fan-out put on each channel
  cancelCalls,    \* history: completed calls of each client's cancel
  state,          \* websocket Server.state: connection -> connState (its subs)
  sockOpen,       \* connections whose socket has not been closed
  seq,            \* Server.seq
  frames,         \* the frames written to each socket, in order
  wsPc,           \* where the broadcast consumer and each connection's reader stand
  wsEvt,          \* the store event the broadcast consumer is handling
  targets,        \* the targets snapshot of Server.broadcast: not yet served
  initTodo,       \* handleInit: ids of state.subs not yet visited by the last loop
  out,            \* the connection and message a thread is writing
  inits,          \* Initialize frames read so far
  initLimit,      \* how many Initialize frames the behaviour reads
  now,            \* the clock, in milliseconds
  lastHeartbeat,  \* connState.lastHeartbeat of each connection
  misses,         \* connState.misses of each connection
  tickAt,         \* when the ticker of a connection's heartbeat watcher fires next
  beats,          \* Heartbeat frames read so far
  allocs,         \* history: the values nextSeq returned, in order
  initMark,       \* history: frames written, ids and commits when handleInit's loop began
  lastFrame,      \* history: the frame each reader took last, and the frames written then
  bcMark,         \* history: frames written and subscriptions when broadcast took its event
  regAt,          \* history: when each connection was registered
  droppedAt,      \* history: when the heartbeat watcher dropped each connection
  maxSilence,     \* history: the longest time a registered connection went without heartbeat
  advances,       \* history: how often the clock was advanced
  writeMu,        \* connState.writeMu of each connection: the thread holding it
  onSock,         \* the threads inside a WriteJSON, WriteControl or Close of each socket
  mainPc,         \* where the caller of Server.Close stands
  fnName,         \* the function a caller has applied ("" before the call)
  fnArgs,         \* the arguments of that call
  fnRet,          \* what the call returned
  limClients,     \* RateLimitMiddleware: the map clients, ip -> the state of its limiter
  req,            \* each HTTP request thread inside the middleware: where it stands,
                  \* its ip, its reservation and the answer of its last request
  requests,       \* how many requests have entered the middleware
  ideal,          \* history: per ip, a bucket that only passed requests take from
  passedNow,      \* history: per ip, the requests passed since the clock last moved
  replicators,    \* PresenceStore.replicators: how the Publish of each one ends
  goroutines,     \* the Publish calls started by broadcast that have not run yet
  published,      \* history: the Publish calls made, by replicator and event
  alive,          \* the process is running: no panic went unrecovered
  recovered,      \* history: the tasks in which a panic was recovered
  closes,         \* how often Server.Close has returned
  closedConns,    \* history: the connections Server.Close found registered
  broken,         \* connections whose peer is gone: reads and writes on the socket fail
  cleaner,        \* per connection, the cleanupConn calls sendEvent started with go:
                  \* how many have not run yet and how many have run
  watchPc         \* per connection, where its watchHeartbeats goroutine is

storeVars == <<data, watchers, chans, closed, nextWatcherID, rlock>>
taskVars == <<pc, kind, taken, op, uid, pres, evt, todo, work, lookup, events, limit>>
histVars == <<commits, lastWrite, had, fanout, delivered>>
clientVars == <<sub, cancelCalls>>
hbHist == <<regAt, droppedAt, maxSilence, advances>>
hbVars == <<now, lastHeartbeat, misses, tickAt, beats, hbHist>>
wsHist == <<allocs, initMark, lastFrame, bcMark>>
muVars == <<writeMu, onSock, mainPc>>
wsVars == <<state, sockOpen, seq, frames, wsPc, wsEvt, targets, initTodo, out, inits,
            initLimit, hbVars, wsHist, muVars>>
callVars == <<fnName, fnArgs, fnRet>>
limitVars == <<limClients, req, requests, ideal, passedNow>>
panicVars == <<replicators, goroutines, published, alive, recovered>>
closeVars == <<closes, closedConns>>
faultVars == <<broken, cleaner, watchPc>>
otherVars == <<callVars, limitVars, panicVars, closeVars, faultVars>>
vars == <<storeVars, taskVars, histVars, clientVars, wsVars, otherVars>>

WatcherIds == 0 .. (Cardinality(Clients) - 1)

NoEvent == [UserID |-> "", Presence |-> ZeroPresence, Removed |-> FALSE, ver |-> 0]

\* PresenceEvent; ver is the history field naming the commit that produced it
PresenceEvent(userID, presence, removed, ver) ==
  [UserID |-> userID, Presence |-> presence, Removed |-> removed, ver |-> ver]

Put(m, k, v) == [x \in DOMAIN m \cup {k} |-> IF x = k THEN v ELSE m[x]]
Delete(m, k) == [x \in DOMAIN m \ {k} |-> m[x]]

\* PresenceStore.GetPresence: <<presence, ok>>
GetPresence(userID) ==
  IF userID \in DOMAIN data THEN <<data[userID], TRUE>> ELSE <<ZeroPresence, FALSE>>

\* a message on its way to a socket; subs is the history field holding the
\* subscription set of the connection when the frame was written
NoData == [isNil |-> TRUE, v |-> ZeroPresence]
NoMessage ==
  [Op |-> -1, Seq |-> 0, T |-> "", UserID |-> "", Data |-> NoData, Removed |-> FALSE,
   Code |-> 0, subs |-> {}]
NoOut == [conn |-> "", msg |-> NoMessage]
NoTick == -1
NoThread == "none"
NoMark == [at |-> 0, ids |-> {}, commits |-> 0]
NoInitData == [kind |-> "none", SubscribeToID |-> "", SubscribeToIDs |-> << >>]
NoFrame == [Op |-> -1, d |-> NoInitData, at |-> 0]
NoBcMark == [taken |-> FALSE, at |-> [c \in Conns |-> 0], subs |-> << >>]

\* the websocket state before any client has connected
InitServer ==
  /\ state = << >>
  /\ sockOpen = {}
  /\ seq = 0
  /\ frames = [c \in Conns |-> << >>]
  /\ wsPc = [th \in Threads |-> IF th = "bc" THEN "idle" ELSE "new"]
  /\ wsEvt = NoEvent
  /\ targets = {}
  /\ initTodo = [c \in Conns |-> {}]
  /\ out = [th \in Threads |-> NoOut]
  /\ inits = 0
  /\ now = 0
  /\ lastHeartbeat = [c \in Conns |-> 0]
  /\ misses = [c \in Conns |-> 0]
  /\ tickAt = [c \in Conns |-> NoTick]
  /\ beats = 0
  /\ allocs = << >>
  /\ initMark = [c \in Conns |-> NoMark]
  /\ lastFrame = [c \in Conns |-> NoFrame]
  /\ bcMark = NoBcMark
  /\ regAt = [c \in Conns |-> 0]
  /\ droppedAt = [c \in Conns |-> NoTick]
  /\ maxSilence = [c \in Conns |-> 0]
  /\ advances = 0
  /\ writeMu = [c \in Conns |-> NoThread]
  /\ onSock = [c \in Conns |-> {}]
  /\ mainPc = "idle"

\* no function of the library has been called from outside the handlers
NoArgs == << >>
NoRet == << >>
InitCall ==
  /\ fnName = ""
  /\ fnArgs = NoArgs
  /\ fnRet = NoRet

\* the threads serving HTTP requests and the addresses they come from
Requests == {"h1", "h2"}
IPs == {"ip1", "ip2"}
NoReservation == [ok |-> FALSE, tokens |-> 0, timeToAct |-> 0]
IdleRequest == [pc |-> "idle", ip |-> "", res |-> NoReservation, status |-> 0, retryAfter |-> 0]

\* no request has reached the middleware
InitLimiter ==
  /\ limClients = << >>
  /\ req = [r \in Requests |-> IdleRequest]
  /\ requests = 0
  /\ ideal = << >>
  /\ passedNow = << >>

\* NewPresenceStore: no replicator; nothing has panicked
InitNoPanic ==
  /\ replicators = << >>
  /\ goroutines = {}
  /\ published = {}
  /\ alive = TRUE
  /\ recovered = {}

\* Server.Close has not been called
InitNoClose ==
  /\ closes = 0
  /\ closedConns = {}

\* no socket has failed, sendEvent has started no cleanup
InitNoFault ==
  /\ broken = {}
  /\ cleaner = [c \in Conns |-> [pending |-> 0, ran |-> 0]]
  /\ watchPc = [c \in Conns |-> "tick"]

InitAux == InitLimiter /\ InitNoPanic /\ InitNoClose /\ InitNoFault
InitOther == InitCall /\ InitAux

InitStore ==
  /\ InitServer
  /\ data = << >>
  /\ watchers = {}
  /\ chans = [w \in WatcherIds |-> << >>]
  /\ closed = [w \in WatcherIds |-> 0]
  /\ nextWatcherID = 0
  /\ rlock = {}
  /\ pc = [t \in Tasks |-> "idle"]
  /\ kind = [t \in Tasks |-> "none"]
  /\ taken = [t \in Tasks |-> NoTaken]
  /\ op = [t \in Tasks |-> "none"]
  /\ uid = [t \in Tasks |-> ""]
  /\ pres = [t \in Tasks |-> ZeroPresence]
  /\ evt = [t \in Tasks |-> NoEvent]
  /\ todo = [t \in Tasks |-> {}]
  /\ work = [t \in Tasks |-> NoChunk]
  /\ lookup = [t \in Tasks |-> << >>]
  /\ sub = [c \in Clients |-> NoWatcher]
  /\ events = 0
  /\ commits = 0
  /\ lastWrite = [u \in Users |-> "none"]
  /\ had = [t \in Tasks |-> FALSE]
  /\ fanout = [t \in Tasks |-> {}]
  /\ delivered = [t \in Tasks |-> << >>]
  /\ cancelCalls = [c \in Clients |-> 0]

(***************************************************************************)
(* PresenceStore: the locked part of each write, and the fan-out.  These   *)
(* definitions fix the store's variables and the caller's op, uid and evt; *)
(* the calling handler fixes pc, pres, work, lookup and events.            *)
(***************************************************************************)
\* a SetPresence that stores its argument as it came, without line 218
SetPresenceUnnormalized(t, userID, presence) ==
  /\ rlock = {}
  /\ data' = Put(data, userID, presence)
  /\ evt' = [evt EXCEPT ![t] = PresenceEvent(userID, presence, FALSE, commits + 1)]
  /\ commits' = commits + 1
  /\ lastWrite' = [lastWrite EXCEPT ![userID] = t]
  /\ op' = [op EXCEPT ![t] = "SetPresence"]
  /\ uid' = [uid EXCEPT ![t] = userID]
  /\ UNCHANGED <<watchers, chans, closed, nextWatcherID, rlock, todo,
                 had, fanout, delivered, clientVars, wsVars, otherVars>>

\* SetPresence, lines 218-221: normalize, then the write under Lock
SetPresence(t, userID, presence) ==
  /\ rlock = {}
  /\ LET p == normalizePresence(presence)
     IN /\ data' = Put(data, userID, p)
        /\ evt' = [evt EXCEPT ![t] = PresenceEvent(userID, p, FALSE, commits + 1)]
  /\ commits' = commits + 1
  /\ lastWrite' = [lastWrite EXCEPT ![userID] = t]
  /\ op' = [op EXCEPT ![t] = "SetPresence"]
  /\ uid' = [uid EXCEPT ![t] = userID]
  /\ UNCHANGED <<watchers, chans, closed, nextWatcherID, rlock, todo,
                 had, fanout, delivered, clientVars, wsVars, otherVars>>

\* a SetPresenceQuiet that hands the new value to the watchers' channels
SetPresenceQuietEmitting(t, userID, presence) ==
  /\ rlock = {}
  /\ data' = Put(data, userID, normalizePresence(presence))
  /\ chans' = [w \in WatcherIds |->
                 IF w \in watchers
                   THEN Append(chans[w], PresenceEvent(userID, normalizePresence(presence),
                                                      FALSE, commits))
                   ELSE chans[w]]
  /\ lastWrite' = [lastWrite EXCEPT ![userID] = t]
  /\ op' = [op EXCEPT ![t] = "SetPresenceQuiet"]
  /\ uid' = [uid EXCEPT ![t] = userID]
  /\ UNCHANGED <<watchers, closed, nextWatcherID, rlock, evt, todo,
                 commits, had, fanout, delivered, clientVars, wsVars, otherVars>>

\* SetPresenceQuiet, lines 227-230
SetPresenceQuiet(t, userID, presence) ==
  /\ rlock = {}
  /\ data' = Put(data, userID, normalizePresence(presence))
  /\ lastWrite' = [lastWrite EXCEPT ![userID] = t]
  /\ op' = [op EXCEPT ![t] = "SetPresenceQuiet"]
  /\ uid' = [uid EXCEPT ![t] = userID]
  /\ UNCHANGED <<watchers, chans, closed, nextWatcherID, rlock, evt, todo,
                 commits, had, fanout, delivered, clientVars, wsVars, otherVars>>

\* a RemovePresence whose event lacks Removed: true
RemovePresenceUnflagged(t, userID) ==
  /\ rlock = {}
  /\ data' = Delete(data, userID)
  /\ evt' = [evt EXCEPT ![t] = PresenceEvent(userID, ZeroPresence, FALSE, commits + 1)]
  /\ commits' = commits + 1
  /\ lastWrite' = [lastWrite EXCEPT ![userID] = t]
  /\ had' = [had EXCEPT ![t] = userID \in DOMAIN data]
  /\ op' = [op EXCEPT ![t] = "RemovePresence"]
  /\ uid' = [uid EXCEPT ![t] = userID]
  /\ UNCHANGED <<watchers, chans, closed, nextWatcherID, rlock, todo,
                 fanout, delivered, clientVars, wsVars, otherVars>>

\* RemovePresence, lines 250-252
RemovePresence(t, userID) ==
  /\ rlock = {}
  /\ data' = Delete(data, userID)
  /\ evt' = [evt EXCEPT ![t] = PresenceEvent(userID, ZeroPresence, TRUE, commits + 1)]
  /\ commits' = commits + 1
  /\ lastWrite' = [lastWrite EXCEPT ![userID] = t]
  /\ had' = [had EXCEPT ![t] = userID \in DOMAIN data]
  /\ op' = [op EXCEPT ![t] = "RemovePresence"]
  /\ uid' = [uid EXCEPT ![t] = userID]
  /\ UNCHANGED <<watchers, chans, closed, nextWatcherID, rlock, todo,
                 fanout, delivered, clientVars, wsVars, otherVars>>

\* the update function mergeRawUserFromMaps passes to UpdatePresenceQuiet
MergeUpdate(prev, du) ==
  [prev EXCEPT !.DiscordUser = MergeDiscordUser(prev.DiscordUser, du)]

\* an UpdatePresenceQuiet that stores the updated value without line 244
UpdatePresenceQuietStale(t, userID, du) ==
  /\ rlock = {}
  /\ LET current == IF userID \in DOMAIN data THEN data[userID]
                    ELSE [ZeroPresence EXCEPT !.DiscordStatus = "offline"]
     IN data' = Put(data, userID, MergeUpdate(current, du))
  /\ lastWrite' = [lastWrite EXCEPT ![userID] = t]
  /\ op' = [op EXCEPT ![t] = "UpdatePresenceQuiet"]
  /\ uid' = [uid EXCEPT ![t] = userID]
  /\ UNCHANGED <<watchers, chans, closed, nextWatcherID, rlock, evt, todo,
                 commits, had, fanout, delivered, clientVars, wsVars, otherVars>>

\* UpdatePresenceQuiet, lines 238-246, with that update function
UpdatePresenceQuiet(t, userID, du) ==
  /\ rlock = {}
  /\ LET current == IF userID \in DOMAIN data THEN data[userID]
                    ELSE [ZeroPresence EXCEPT !.DiscordStatus = "offline"]
     IN data' = Put(data, userID, normalizePresence(MergeUpdate(current, du)))
  /\ lastWrite' = [lastWrite EXCEPT ![userID] = t]
  /\ op' = [op EXCEPT ![t] = "UpdatePresenceQuiet"]
  /\ uid' = [uid EXCEPT ![t] = userID]
  /\ UNCHANGED <<watchers, chans, closed, nextWatcherID, rlock, evt, todo,
                 commits, had, fanout, delivered, clientVars, wsVars, otherVars>>

\* a step of a handler that makes no store call
NoStoreCall(t) ==
  /\ op' = [op EXCEPT ![t] = "none"]
  /\ UNCHANGED <<storeVars, uid, evt, todo, histVars, clientVars, wsVars, otherVars>>

\* where a handler goes on when a store call has returned
Continue(t, w) == IF w.presences # << >> THEN "presences" ELSE "idle"

\* history of one fan-out for one watcher: the events it put on the channel
\* and the depth of the buffer when the send was tried (-1 before that)
NoneDelivered == [sent |-> << >>, depth |-> -1]

\* broadcast, lines 278-280: RLock; the range loop starts over the watchers
broadcastLock(t) ==
  /\ pc[t] = "broadcast"
  /\ rlock' = rlock \cup {t}
  /\ todo' = [todo EXCEPT ![t] = watchers]
  /\ fanout' = [fanout EXCEPT ![t] = watchers]
  /\ delivered' = [delivered EXCEPT ![t] = [w \in watchers |-> NoneDelivered]]
  /\ pc' = [pc EXCEPT ![t] = "send"]
  /\ UNCHANGED <<data, watchers, chans, closed, nextWatcherID, kind, taken, op, uid, pres,
                 evt, work, lookup, events, limit, commits, lastWrite, had, clientVars, wsVars, otherVars>>

\* a send that does not look at the room left in the buffer
TrySendUnbounded(buf, e) == Append(buf, e)

\* the select of lines 281-285: send if the buffer has room, else drop
TrySend(buf, e) == IF Len(buf) < ChanCap THEN Append(buf, e) ELSE buf

\* an iteration whose send is a plain ch <- evt: it waits for room
broadcastSendBlocking(t, w) ==
  /\ pc[t] = "send"
  /\ w \in todo[t]
  /\ Len(chans[w]) < ChanCap
  /\ chans' = [chans EXCEPT ![w] = Append(@, evt[t])]
  /\ delivered' = [delivered EXCEPT ![t][w] =
                     [sent |-> Append(@.sent, evt[t]), depth |-> Len(chans[w])]]
  /\ todo' = [todo EXCEPT ![t] = @ \ {w}]
  /\ UNCHANGED <<data, watchers, closed, nextWatcherID, rlock, pc, kind, taken, op, uid, pres,
                 evt, work, lookup, events, limit, commits, lastWrite, had, fanout, clientVars, wsVars, otherVars>>

\* one iteration of the range loop, for watcher w
broadcastSend(t, w) ==
  /\ pc[t] = "send"
  /\ w \in todo[t]
  /\ chans' = [chans EXCEPT ![w] = TrySend(chans[w], evt[t])]
  /\ delivered' = [delivered EXCEPT ![t][w] =
                     [sent |-> IF chans'[w] # chans[w] THEN Append(@.sent, evt[t]) ELSE @.sent,
                      depth |-> Len(chans[w])]]
  /\ todo' = [todo EXCEPT ![t] = @ \ {w}]
  /\ UNCHANGED <<data, watchers, closed, nextWatcherID, rlock, pc, kind, taken, op, uid, pres,
                 evt, work, lookup, events, limit, commits, lastWrite, had, fanout, clientVars, wsVars, otherVars>>

\* the loop is over: one GoSafe task per replicator (cmd/main.go registers
\* none), RUnlock, return
broadcastUnlock(t) ==
  /\ pc[t] = "send"
  /\ todo[t] = {}
  /\ goroutines' = goroutines \cup { [rep |-> i, ver |-> evt[t].ver] : i \in 1 .. Len(replicators) }
  /\ rlock' = rlock \ {t}
  /\ pc' = [pc EXCEPT ![t] = Continue(t, work[t])]
  /\ UNCHANGED <<data, watchers, chans, closed, nextWatcherID, kind, taken, op, uid, pres, evt,
                 todo, work, lookup, events, limit, histVars, clientVars, wsVars, callVars,
                 limitVars, replicators, published, alive, recovered, closeVars, faultVars>>

\* BroadcastPresence, lines 257-265: read under RLock, broadcast if present
BroadcastPresence(t) ==
  /\ pc[t] = "BroadcastPresence"
  /\ LET r == GetPresence(uid[t])
     IN IF r[2]
          THEN /\ evt' = [evt EXCEPT ![t] = PresenceEvent(uid[t], r[1], FALSE, 0)]
               /\ pc' = [pc EXCEPT ![t] = "broadcast"]
          ELSE /\ pc' = [pc EXCEPT ![t] = Continue(t, work[t])]
               /\ UNCHANGED evt
  /\ op' = [op EXCEPT ![t] = "BroadcastPresence"]
  /\ UNCHANGED <<storeVars, kind, taken, uid, pres, todo, work, lookup, events, limit, histVars,
                 clientVars, wsVars, otherVars>>

(***************************************************************************)
(* Gateway adapter.                                                        *)
(***************************************************************************)
\* a task takes its next gateway event
Take(t, evType, payload) ==
  /\ pc[t] = "idle"
  /\ events < limit
  /\ events' = events + 1
  /\ kind' = [kind EXCEPT ![t] = evType]
  /\ taken' = IF taken[t].on
                THEN [taken EXCEPT ![t] =
                        [on |-> TRUE, payload |-> payload, before |-> data,
                         depth |-> [w \in watchers |-> Len(chans[w])]]]
                ELSE taken
  /\ UNCHANGED limit

\* handleRawPresence up to its first store call: RemovePresence, or GetPresence
\* and the merge with the previous discord_user
handleRawPresence(t, payload) ==
  /\ Take(t, "PRESENCE_UPDATE", payload)
  /\ UNCHANGED <<work, lookup>>
  /\ LET b == BuildPresenceFromRaw(payload, payload.user, payload.member)
         prev == GetPresence(b[2])
     IN IF ~b[3]
          THEN IF b[2] # ""
                 THEN /\ RemovePresence(t, b[2])
                      /\ pc' = [pc EXCEPT ![t] = "broadcast"]
                      /\ UNCHANGED pres
                 ELSE /\ NoStoreCall(t)
                      /\ UNCHANGED <<pc, pres>>
          ELSE /\ pres' = [pres EXCEPT ![t] =
                             IF prev[2]
                               THEN [b[1] EXCEPT !.DiscordUser =
                                       MergeDiscordUser(prev[1].DiscordUser, b[1].DiscordUser)]
                               ELSE b[1]]
               /\ uid' = [uid EXCEPT ![t] = b[2]]
               /\ op' = [op EXCEPT ![t] = "GetPresence"]
               /\ pc' = [pc EXCEPT ![t] = "SetPresence"]
               /\ UNCHANGED <<storeVars, evt, todo, histVars, clientVars, wsVars, otherVars>>

\* handleRawPresence, line 134: st.SetPresence(userID, presence)
handleRawPresenceSet(t) ==
  /\ pc[t] = "SetPresence"
  /\ SetPresence(t, uid[t], pres[t])
  /\ pc' = [pc EXCEPT ![t] = "broadcast"]
  /\ UNCHANGED <<kind, taken, pres, work, lookup, events, limit>>

\* GUILD_MEMBER_ADD / GUILD_MEMBER_UPDATE: what mergeRawUserFromMaps does
mergeRawUserFromMaps(t, userMap, memberMap) ==
  IF ~userMap.has \/ ExtractStringField(userMap) = ""
    THEN NoStoreCall(t)
    ELSE UpdatePresenceQuiet(t, ExtractStringField(userMap),
                             discordUserFromRaw(userMap, memberMap))

\* MergeRawUser: the whole handler is one locked read-modify-write
MergeRawUser(t, userMap, memberMap) ==
  /\ Take(t, "GUILD_MEMBER_UPDATE", [user |-> userMap, member |-> memberMap])
  /\ mergeRawUserFromMaps(t, userMap, memberMap)
  /\ UNCHANGED <<pc, pres, work, lookup>>

\* GUILD_MEMBER_REMOVE
handleRawMemberRemove(t, payload) ==
  /\ Take(t, "GUILD_MEMBER_REMOVE", payload)
  /\ UNCHANGED <<pres, work, lookup>>
  /\ IF ExtractUserID(payload) = ""
       THEN NoStoreCall(t) /\ UNCHANGED pc
       ELSE RemovePresence(t, ExtractUserID(payload)) /\ pc' = [pc EXCEPT ![t] = "broadcast"]

RECURSIVE buildMemberLookup(_)
\* buildMemberLookup: user id -> member entry, later entries win
buildMemberLookup(members) ==
  IF members = << >> THEN << >>
  ELSE LET m == members[Len(members)]
           rest == buildMemberLookup(SubSeq(members, 1, Len(members) - 1))
       IN IF m.has /\ ExtractStringField(m.user) # ""
            THEN Put(rest, ExtractStringField(m.user), m)
            ELSE rest

\* GUILD_MEMBERS_CHUNK is taken: MergeChunkRawMembers and UpsertChunkPresences decode it
TakeChunk(t, chunk) ==
  /\ Take(t, "GUILD_MEMBERS_CHUNK", chunk)
  /\ work' = [work EXCEPT ![t] = chunk]
  /\ lookup' = [lookup EXCEPT ![t] = buildMemberLookup(chunk.members)]
  /\ pc' = [pc EXCEPT ![t] = IF chunk.members # << >> THEN "members"
                             ELSE Continue(t, chunk)]
  /\ NoStoreCall(t)
  /\ UNCHANGED pres

\* MergeChunkRawMembers: one iteration of the loop over members
MergeChunkRawMembers(t) ==
  /\ pc[t] = "members"
  /\ LET entry == Head(work[t].members)
         w == [work[t] EXCEPT !.members = Tail(@)]
     IN /\ IF ~entry.has \/ ~entry.user.has
             THEN NoStoreCall(t)
             ELSE mergeRawUserFromMaps(t, entry.user, entry)
        /\ work' = [work EXCEPT ![t] = w]
        /\ pc' = [pc EXCEPT ![t] = IF w.members # << >> THEN "members" ELSE Continue(t, w)]
  /\ UNCHANGED <<kind, taken, pres, lookup, events, limit>>

\* an entry of a presences array that is not a JSON object
NonObjectEntry == [scalar |-> "x"]
isEntryObject(item) == "user" \in DOMAIN item

\* pres["user"].(map[string]any) on an entry without user object: the type
\* assertion panics in the gateway handler's task, which nothing recovers
userAssertionPanics(t) ==
  /\ alive' = FALSE
  /\ pc' = [pc EXCEPT ![t] = "panic"]
  /\ op' = [op EXCEPT ![t] = "none"]
  /\ UNCHANGED <<storeVars, uid, evt, todo, work, pres, histVars, clientVars, wsVars, callVars,
                 limitVars, replicators, goroutines, published, recovered, closeVars, faultVars>>

\* an UpsertChunkPresences that stores the presence without BroadcastPresence
UpsertChunkPresencesSilent(t) ==
  /\ pc[t] = "presences"
  /\ LET item == Head(work[t].presences)
         w == [work[t] EXCEPT !.presences = Tail(@)]
         id == ExtractUserID(item)
         member == IF id \in DOMAIN lookup[t] THEN lookup[t][id] ELSE NoRawMember
         b == BuildPresenceFromRaw(item, item.user, member)
     IN IF ~isEntryObject(item)
          THEN /\ work' = [work EXCEPT ![t] = w]
               /\ NoStoreCall(t)
               /\ pc' = [pc EXCEPT ![t] = Continue(t, w)]
               /\ UNCHANGED pres
          ELSE IF ~item.user.has
          THEN userAssertionPanics(t)
          ELSE
        /\ work' = [work EXCEPT ![t] = w]
        /\ IF ~b[3]
             THEN IF b[2] # ""
                    THEN /\ RemovePresence(t, b[2])
                         /\ pc' = [pc EXCEPT ![t] = "broadcast"]
                         /\ UNCHANGED pres
                    ELSE /\ NoStoreCall(t)
                         /\ pc' = [pc EXCEPT ![t] = Continue(t, w)]
                         /\ UNCHANGED pres
             ELSE /\ SetPresenceQuiet(t, b[2], b[1])
                  /\ pres' = [pres EXCEPT ![t] = b[1]]
                  /\ pc' = [pc EXCEPT ![t] = Continue(t, w)]
  /\ UNCHANGED <<kind, taken, lookup, events, limit>>

\* UpsertChunkPresences: one iteration of the loop over presences, up to the
\* return of RemovePresence's or SetPresenceQuiet's locked part
UpsertChunkPresences(t) ==
  /\ pc[t] = "presences"
  /\ LET item == Head(work[t].presences)
         w == [work[t] EXCEPT !.presences = Tail(@)]
         id == ExtractUserID(item)
         member == IF id \in DOMAIN lookup[t] THEN lookup[t][id] ELSE NoRawMember
         b == BuildPresenceFromRaw(item, item.user, member)
     IN IF ~isEntryObject(item)
          THEN /\ work' = [work EXCEPT ![t] = w]
               /\ NoStoreCall(t)
               /\ pc' = [pc EXCEPT ![t] = Continue(t, w)]
               /\ UNCHANGED pres
          ELSE IF ~item.user.has
          THEN userAssertionPanics(t)
          ELSE
        /\ work' = [work EXCEPT ![t] = w]
        /\ IF ~b[3]
             THEN IF b[2] # ""
                    THEN /\ RemovePresence(t, b[2])
                         /\ pc' = [pc EXCEPT ![t] = "broadcast"]
                         /\ UNCHANGED pres
                    ELSE /\ NoStoreCall(t)
                         /\ pc' = [pc EXCEPT ![t] = Continue(t, w)]
                         /\ UNCHANGED pres
             ELSE /\ SetPresenceQuiet(t, b[2], b[1])
                  /\ pres' = [pres EXCEPT ![t] = b[1]]
                  /\ pc' = [pc EXCEPT ![t] = "BroadcastPresence"]
  /\ UNCHANGED <<kind, taken, lookup, events, limit>>

(***************************************************************************)
(* Subscribers of the store.                                               *)
(***************************************************************************)
\* Subscribe, lines 165-171
Subscribe(c) ==
  /\ sub[c] = NoWatcher
  /\ rlock = {}
  /\ sub' = [sub EXCEPT ![c] = nextWatcherID]
  /\ nextWatcherID' = nextWatcherID + 1
  /\ chans' = [chans EXCEPT ![nextWatcherID] = << >>]
  /\ watchers' = watchers \cup {nextWatcherID}
  /\ UNCHANGED <<data, closed, rlock, taskVars, histVars, cancelCalls, wsVars, otherVars>>

\* a cancel that does not wait for the readers of the lock to leave
cancelWithoutLock(c) ==
  /\ sub[c] # NoWatcher
  /\ cancelCalls[c] < MaxCancels
  /\ IF sub[c] \in watchers
       THEN /\ watchers' = watchers \ {sub[c]}
            /\ closed' = [closed EXCEPT ![sub[c]] = @ + 1]
       ELSE UNCHANGED <<watchers, closed>>
  /\ cancelCalls' = [cancelCalls EXCEPT ![c] = @ + 1]
  /\ UNCHANGED <<data, chans, nextWatcherID, rlock, taskVars, histVars, sub, wsVars, otherVars>>

\* a cancel that closes the channel and leaves it in the watcher set
cancelKeepsWatcher(c) ==
  /\ sub[c] # NoWatcher
  /\ cancelCalls[c] < MaxCancels
  /\ rlock = {}
  /\ IF closed[sub[c]] = 0
       THEN closed' = [closed EXCEPT ![sub[c]] = @ + 1]
       ELSE UNCHANGED closed
  /\ cancelCalls' = [cancelCalls EXCEPT ![c] = @ + 1]
  /\ UNCHANGED <<data, chans, watchers, nextWatcherID, rlock, taskVars, histVars, sub, wsVars, otherVars>>

\* a cancel without the membership test of line 176
cancelClosesAgain(c) ==
  /\ sub[c] # NoWatcher
  /\ cancelCalls[c] < MaxCancels
  /\ rlock = {}
  /\ watchers' = watchers \ {sub[c]}
  /\ closed' = [closed EXCEPT ![sub[c]] = @ + 1]
  /\ cancelCalls' = [cancelCalls EXCEPT ![c] = @ + 1]
  /\ UNCHANGED <<data, chans, nextWatcherID, rlock, taskVars, histVars, sub, wsVars, otherVars>>

\* the cancel closure of Subscribe, lines 173-180
cancel(c) ==
  /\ sub[c] # NoWatcher
  /\ cancelCalls[c] < MaxCancels
  /\ rlock = {}
  /\ IF sub[c] \in watchers
       THEN /\ watchers' = watchers \ {sub[c]}
            /\ closed' = [closed EXCEPT ![sub[c]] = @ + 1]
       ELSE UNCHANGED <<watchers, closed>>
  /\ cancelCalls' = [cancelCalls EXCEPT ![c] = @ + 1]
  /\ UNCHANGED <<data, chans, nextWatcherID, rlock, taskVars, histVars, sub, wsVars, otherVars>>

\* the holder of the channel takes one event from it
Receive(c) ==
  /\ sub[c] # NoWatcher
  /\ chans[sub[c]] # << >>
  /\ chans' = [chans EXCEPT ![sub[c]] = Tail(@)]
  /\ UNCHANGED <<data, watchers, closed, nextWatcherID, rlock, taskVars, histVars, clientVars, wsVars, otherVars>>

(***************************************************************************)
(* Spec: two gateway tasks feed the store with every kind of event; one    *)
(* client subscribes at some point.                                        *)
(***************************************************************************)
Next ==
  \/ \E t \in Tasks : \E payload \in PresencePayloads : handleRawPresence(t, payload)
  \/ \E t \in Tasks : handleRawPresenceSet(t)
  \/ \E t \in Tasks : \E m \in MemberPayloads : MergeRawUser(t, m[1], m[2])
  \/ \E t \in Tasks : \E payload \in RemovePayloads : handleRawMemberRemove(t, payload)
  \/ \E t \in Tasks : \E chunk \in ChunkPayloads : TakeChunk(t, chunk)
  \/ \E t \in Tasks : MergeChunkRawMembers(t)
  \/ \E t \in Tasks : UpsertChunkPresences(t)
  \/ \E t \in Tasks : BroadcastPresence(t)
  \/ \E t \in Tasks : broadcastLock(t)
  \/ \E t \in Tasks : \E w \in WatcherIds : broadcastSend(t, w)
  \/ \E t \in Tasks : broadcastUnlock(t)
  \/ Subscribe("s1")

Init == InitStore /\ InitOther /\ limit = MaxEvents /\ initLimit = 0

Spec == Init /\ [][Next]_vars

(***************************************************************************)
(* SpecMerge: one gateway task handles presence updates, member updates    *)
(* and member chunks one after the other (no removal, no offline status);  *)
(* client s1 subscribes at some point and does not read.                   *)
(***************************************************************************)
MergePresencePayloads ==
  { PresenceUpdate(RawUser("1", "x", ""), "online", << >>),
    PresenceUpdate(RawUser("1", "", ""), "idle", << >>) }

MergeMemberPayloads == { <<RawUser("1", "", "X"), RawMember("Mr X", NoRawUser)>> }

MergeChunkPayloads ==
  { Chunk(<<ChunkMember("1")>>, <<PresenceUpdate(RawUser("1", "", ""), "online", << >>)>>),
    Chunk(<<ChunkMember("1"), ChunkMember("2")>>,
          <<PresenceUpdate(RawUser("1", "", ""), "online", << >>),
            PresenceUpdate(RawUser("2", "", ""), "idle", << >>)>>),
    Chunk(<< >>, <<PresenceUpdate(RawUser("1", "", ""), "dnd", << >>)>>) }

InitMerge ==
  /\ InitServer
  /\ InitOther
  /\ data = << >>
  /\ watchers = {}
  /\ chans = [w \in WatcherIds |-> << >>]
  /\ closed = [w \in WatcherIds |-> 0]
  /\ nextWatcherID = 0
  /\ rlock = {}
  /\ pc = [t \in Tasks |-> "idle"]
  /\ kind = [t \in Tasks |-> "none"]
  /\ taken = [t \in Tasks |-> [NoTaken EXCEPT !.on = TRUE]]
  /\ op = [t \in Tasks |-> "none"]
  /\ uid = [t \in Tasks |-> ""]
  /\ pres = [t \in Tasks |-> ZeroPresence]
  /\ evt = [t \in Tasks |-> NoEvent]
  /\ todo = [t \in Tasks |-> {}]
  /\ work = [t \in Tasks |-> NoChunk]
  /\ lookup = [t \in Tasks |-> << >>]
  /\ sub = [c \in Clients |-> NoWatcher]
  /\ events = 0
  /\ commits = 0
  /\ lastWrite = [u \in Users |-> "none"]
  /\ had = [t \in Tasks |-> FALSE]
  /\ fanout = [t \in Tasks |-> {}]
  /\ delivered = [t \in Tasks |-> << >>]
  /\ cancelCalls = [c \in Clients |-> 0]
  /\ limit = MaxMergeEvents
  /\ initLimit = 0

NextMerge ==
  \/ \E payload \in MergePresencePayloads : handleRawPresence("g1", payload)
  \/ handleRawPresenceSet("g1")
  \/ \E m \in MergeMemberPayloads : MergeRawUser("g1", m[1], m[2])
  \/ \E chunk \in MergeChunkPayloads : TakeChunk("g1", chunk)
  \/ MergeChunkRawMembers("g1")
  \/ UpsertChunkPresences("g1")
  \/ BroadcastPresence("g1")
  \/ broadcastLock("g1")
  \/ \E w \in WatcherIds : broadcastSend("g1", w)
  \/ broadcastUnlock("g1")
  \/ Subscribe("s1")

SpecMerge == InitMerge /\ [][NextMerge]_vars

(***************************************************************************)
(* SpecFanout: two gateway tasks write one user's entry (set, remove,      *)
(* chunk re-broadcast) while two clients subscribe; s1 cancels, s2 reads.  *)
(***************************************************************************)
FanoutPresencePayloads ==
  { PresenceUpdate(RawUser("1", "x", ""), "online", << >>),
    PresenceUpdate(RawUser("1", "", ""), "offline", << >>) }

FanoutChunkPayloads ==
  { Chunk(<< >>, <<PresenceUpdate(RawUser("1", "", ""), "DND", << >>)>>) }

NextFanout ==
  \/ \E t \in Tasks : \E payload \in FanoutPresencePayloads : handleRawPresence(t, payload)
  \/ \E t \in Tasks : handleRawPresenceSet(t)
  \/ \E t \in Tasks : \E chunk \in FanoutChunkPayloads : TakeChunk(t, chunk)
  \/ \E t \in Tasks : UpsertChunkPresences(t)
  \/ \E t \in Tasks : BroadcastPresence(t)
  \/ \E t \in Tasks : broadcastLock(t)
  \/ \E t \in Tasks : \E w \in WatcherIds : broadcastSend(t, w)
  \/ \E t \in Tasks : broadcastUnlock(t)
  \/ \E c \in Clients : Subscribe(c)
  \/ cancel("s1")
  \/ Receive("s2")

InitFanout == InitStore /\ InitOther /\ limit = MaxFanoutEvents /\ initLimit = 0

SpecFanout == InitFanout /\ [][NextFanout]_vars

(***************************************************************************)
(* websocket/server.go.  The server holds watcher 0 of the store           *)
(* (NewServer, line 90).  A thread is the broadcast consumer "bc" or the   *)
(* reader of a connection, named like the connection.                      *)
(***************************************************************************)
opEvent == 0
opHello == 1
opInitialize == 2
opHeartbeat == 3
opClose == 8          \* websocket.CloseMessage, the control frame of closeWithCode
ServerWatcher == 0
heartbeatJitter == 1000
maxHeartbeatMisses == 3
heartbeatIntervalMs == 30000
heartbeatTimeoutMs == 60000

SomeData(p) == [isNil |-> FALSE, v |-> p]

wsMessage(o, t, userID, d, removed) ==
  [Op |-> o, Seq |-> 0, T |-> t, UserID |-> userID, Data |-> d, Removed |-> removed,
   Code |-> 0, subs |-> {}]

\* the close control frame of closeWithCode, line 325
closeMessage(code, reason) ==
  [wsMessage(opClose, reason, "", NoData, FALSE) EXCEPT !.Code = code]

\* the d of an Initialize frame: null, a JSON value that is no object, or an
\* object with its subscribe_to_id and subscribe_to_ids
InitData(k, id, ids) == [kind |-> k, SubscribeToID |-> id, SubscribeToIDs |-> ids]

\* the set of a payload whose empty strings are not passed over
initSubsKeepEmpty(d) ==
  (IF d.SubscribeToID # "" THEN {d.SubscribeToID} ELSE {})
    \cup {d.SubscribeToIDs[i] : i \in DOMAIN d.SubscribeToIDs}

\* handleInit, lines 170-178: the set the payload yields
initSubs(d) ==
  (IF d.SubscribeToID # "" THEN {d.SubscribeToID} ELSE {})
    \cup {d.SubscribeToIDs[i] : i \in {j \in DOMAIN d.SubscribeToIDs : d.SubscribeToIDs[j] # ""}}

\* a frame of the client as ReadJSON decodes it: a missing op is the zero value
ClientFrame(hasOp, o) == [hasOp |-> hasOp, Op |-> o]
decodeOp(f) == IF f.hasOp THEN f.Op ELSE 0

\* the subscription set of a connection, empty when it is not registered
Subs(c) == IF c \in DOMAIN state THEN state[c].subs ELSE {}

\* where a thread goes on when its write has returned
AfterWrite(th) ==
  IF th = "bc" THEN "broadcast"
  ELSE IF out[th].msg.Op = opHello THEN "go"
  ELSE IF out[th].msg.Op = opHeartbeat THEN "read"
  ELSE "init"

\* ServeHTTP, lines 105-116: upgrade, registerConn, then sendHello's writeJSON
wsServeHTTP(c) ==
  /\ wsPc[c] = "new"
  /\ state' = Put(state, c, [subs |-> {}])
  /\ lastHeartbeat' = [lastHeartbeat EXCEPT ![c] = now]
  /\ sockOpen' = sockOpen \cup {c}
  /\ out' = [out EXCEPT ![c] = [conn |-> c, msg |-> wsMessage(opHello, "", "", NoData, FALSE)]]
  /\ wsPc' = [wsPc EXCEPT ![c] = "writeJSON"]
  /\ regAt' = [regAt EXCEPT ![c] = now]
  /\ UNCHANGED <<seq, frames, wsEvt, targets, initTodo, inits, initLimit>>
  /\ UNCHANGED <<now, misses, tickAt, beats, droppedAt, maxSilence, advances, wsHist>>
  /\ UNCHANGED <<storeVars, taskVars, histVars, clientVars, muVars, otherVars>>

\* ServeHTTP, lines 117-118: the heartbeat watcher starts and creates its
\* ticker (line 214), then handleConn starts reading
goWatchHeartbeats(c) ==
  /\ wsPc[c] = "go"
  /\ tickAt' = [tickAt EXCEPT ![c] = now + heartbeatIntervalMs]
  /\ wsPc' = [wsPc EXCEPT ![c] = "read"]
  /\ UNCHANGED <<state, sockOpen, seq, frames, wsEvt, targets, initTodo, out, inits, initLimit>>
  /\ UNCHANGED <<now, lastHeartbeat, misses, beats, hbHist, wsHist>>
  /\ UNCHANGED <<storeVars, taskVars, histVars, clientVars, muVars, otherVars>>

\* cleanupConn, lines 311-321: unregister and close the socket
cleanupConn(c) ==
  /\ state' = Delete(state, c)
  /\ sockOpen' = sockOpen \ {c}

\* handleConn reads an Initialize frame; handleInit, lines 153-183: a d that
\* is no object is answered by closeWithCode(4005); else the subscription
\* set is replaced under stateMu, and an empty one is answered by
\* closeWithCode(4006)
handleInit(c, d) ==
  /\ wsPc[c] = "read"
  /\ c \in sockOpen
  /\ inits < initLimit
  /\ inits' = inits + 1
  /\ lastFrame' = [lastFrame EXCEPT ![c] = [Op |-> opInitialize, d |-> d, at |-> Len(frames[c])]]
  /\ UNCHANGED initLimit
  /\ IF d.kind # "object"
       THEN /\ out' = [out EXCEPT ![c] =
                         [conn |-> c, msg |-> closeMessage(4005, "requires_data_object")]]
            /\ wsPc' = [wsPc EXCEPT ![c] = "closeWithCode"]
            /\ UNCHANGED <<state, initTodo, initMark>>
       ELSE IF c \notin DOMAIN state
         THEN UNCHANGED <<state, wsPc, initTodo, out, initMark>>
         ELSE /\ state' = [state EXCEPT ![c].subs = initSubs(d)]
              /\ IF initSubs(d) = {}
                   THEN /\ out' = [out EXCEPT ![c] =
                                     [conn |-> c, msg |-> closeMessage(4006, "invalid_payload")]]
                        /\ wsPc' = [wsPc EXCEPT ![c] = "closeWithCode"]
                        /\ UNCHANGED <<initTodo, initMark>>
                   ELSE /\ initTodo' = [initTodo EXCEPT ![c] = initSubs(d)]
                        /\ initMark' = [initMark EXCEPT ![c] =
                                          [at |-> Len(frames[c]), ids |-> initSubs(d),
                                           commits |-> commits]]
                        /\ wsPc' = [wsPc EXCEPT ![c] = "init"]
                        /\ UNCHANGED out
  /\ UNCHANGED <<sockOpen, seq, frames, wsEvt, targets>>
  /\ UNCHANGED <<hbVars, allocs, bcMark>>
  /\ UNCHANGED <<storeVars, taskVars, histVars, clientVars, muVars, otherVars>>

\* handleInit's loop without the ok test of GetPresence
handleInitStateUnchecked(c) ==
  /\ wsPc[c] = "init"
  /\ IF initTodo[c] = {}
       THEN /\ wsPc' = [wsPc EXCEPT ![c] = "read"]
            /\ UNCHANGED <<initTodo, out>>
       ELSE \E userID \in initTodo[c] :
              /\ initTodo' = [initTodo EXCEPT ![c] = @ \ {userID}]
              /\ out' = [out EXCEPT ![c] =
                           [conn |-> c,
                            msg |-> wsMessage(opEvent, "INIT_STATE", userID,
                                              SomeData(GetPresence(userID)[1]), FALSE)]]
              /\ wsPc' = [wsPc EXCEPT ![c] = "sendEvent"]
  /\ UNCHANGED <<state, sockOpen, seq, frames, wsEvt, targets, inits, initLimit>>
  /\ UNCHANGED <<hbVars, wsHist>>
  /\ UNCHANGED <<storeVars, taskVars, histVars, clientVars, muVars, otherVars>>

\* handleInit, lines 184-188: one iteration of the loop over state.subs
handleInitState(c) ==
  /\ wsPc[c] = "init"
  /\ IF initTodo[c] = {}
       THEN /\ wsPc' = [wsPc EXCEPT ![c] = "read"]
            /\ UNCHANGED <<initTodo, out>>
       ELSE \E userID \in initTodo[c] :
              /\ initTodo' = [initTodo EXCEPT ![c] = @ \ {userID}]
              /\ LET r == GetPresence(userID)
                 IN IF r[2]
                      THEN /\ out' = [out EXCEPT ![c] =
                                        [conn |-> c,
                                         msg |-> wsMessage(opEvent, "INIT_STATE", userID,
                                                           SomeData(r[1]), FALSE)]]
                           /\ wsPc' = [wsPc EXCEPT ![c] = "sendEvent"]
                      ELSE UNCHANGED <<wsPc, out>>
  /\ UNCHANGED <<state, sockOpen, seq, frames, wsEvt, targets, inits, initLimit>>
  /\ UNCHANGED <<hbVars, wsHist>>
  /\ UNCHANGED <<storeVars, taskVars, histVars, clientVars, muVars, otherVars>>

\* a watcher without the total-silence rule of line 235
watchHeartbeatsNoTimeout(c) ==
  /\ tickAt[c] # NoTick
  /\ now = tickAt[c]
  /\ IF c \notin DOMAIN state
       THEN /\ tickAt' = [tickAt EXCEPT ![c] = NoTick]
            /\ UNCHANGED <<state, sockOpen, misses, droppedAt>>
       ELSE LET timeSinceBeat == now - lastHeartbeat[c]
                expected == heartbeatIntervalMs + heartbeatJitter
                m == IF timeSinceBeat > expected THEN misses[c] + 1 ELSE 0
            IN /\ misses' = [misses EXCEPT ![c] = m]
               /\ IF m >= maxHeartbeatMisses
                    THEN /\ cleanupConn(c)
                         /\ tickAt' = [tickAt EXCEPT ![c] = NoTick]
                         /\ droppedAt' = [droppedAt EXCEPT ![c] = now]
                    ELSE /\ tickAt' = [tickAt EXCEPT ![c] = now + heartbeatIntervalMs]
                         /\ UNCHANGED <<state, sockOpen, droppedAt>>
  /\ UNCHANGED <<seq, frames, wsPc, wsEvt, targets, initTodo, out, inits, initLimit>>
  /\ UNCHANGED <<now, lastHeartbeat, beats, regAt, maxSilence, advances, wsHist>>
  /\ UNCHANGED <<storeVars, taskVars, histVars, clientVars, muVars, otherVars>>

\* a tick that compares the silence with the interval alone, without the jitter
watchHeartbeatsNoJitter(c) ==
  /\ tickAt[c] # NoTick
  /\ now = tickAt[c]
  /\ IF c \notin DOMAIN state
       THEN /\ tickAt' = [tickAt EXCEPT ![c] = NoTick]
            /\ UNCHANGED <<state, sockOpen, misses, droppedAt>>
       ELSE LET timeSinceBeat == now - lastHeartbeat[c]
                expected == heartbeatIntervalMs
                m == IF timeSinceBeat > expected THEN misses[c] + 1 ELSE 0
            IN /\ misses' = [misses EXCEPT ![c] = m]
               /\ IF m >= maxHeartbeatMisses \/ timeSinceBeat > heartbeatTimeoutMs
                    THEN /\ cleanupConn(c)
                         /\ tickAt' = [tickAt EXCEPT ![c] = NoTick]
                         /\ droppedAt' = [droppedAt EXCEPT ![c] = now]
                    ELSE /\ tickAt' = [tickAt EXCEPT ![c] = now + heartbeatIntervalMs]
                         /\ UNCHANGED <<state, sockOpen, droppedAt>>
  /\ UNCHANGED <<seq, frames, wsPc, wsEvt, targets, initTodo, out, inits, initLimit>>
  /\ UNCHANGED <<now, lastHeartbeat, beats, regAt, maxSilence, advances, wsHist>>
  /\ UNCHANGED <<storeVars, taskVars, histVars, clientVars, muVars, otherVars>>

\* watchHeartbeats, lines 216-239: one tick of the watcher's ticker
watchHeartbeats(c) ==
  /\ tickAt[c] # NoTick
  /\ now = tickAt[c]
  /\ IF c \notin DOMAIN state
       THEN /\ tickAt' = [tickAt EXCEPT ![c] = NoTick]
            /\ UNCHANGED <<state, sockOpen, misses, droppedAt>>
       ELSE LET timeSinceBeat == now - lastHeartbeat[c]
                expected == heartbeatIntervalMs + heartbeatJitter
                m == IF timeSinceBeat > expected THEN misses[c] + 1 ELSE 0
            IN /\ misses' = [misses EXCEPT ![c] = m]
               /\ IF m >= maxHeartbeatMisses \/ timeSinceBeat > heartbeatTimeoutMs
                    THEN /\ cleanupConn(c)
                         /\ tickAt' = [tickAt EXCEPT ![c] = NoTick]
                         /\ droppedAt' = [droppedAt EXCEPT ![c] = now]
                    ELSE /\ tickAt' = [tickAt EXCEPT ![c] = now + heartbeatIntervalMs]
                         /\ UNCHANGED <<state, sockOpen, droppedAt>>
  /\ UNCHANGED <<seq, frames, wsPc, wsEvt, targets, initTodo, out, inits, initLimit>>
  /\ UNCHANGED <<now, lastHeartbeat, beats, regAt, maxSilence, advances, wsHist>>
  /\ UNCHANGED <<storeVars, taskVars, histVars, clientVars, muVars, otherVars>>

\* ServeHTTP is between registerConn and the start of the watcher
Starting(c) == wsPc[c] \in {"writeJSON", "WriteJSON", "go"} /\ out[c].msg.Op = opHello

\* time passes: d milliseconds, not beyond the next tick of a running watcher;
\* the Hello is written and the watcher started within heartbeatJitter of the
\* registration
Advance(d) ==
  /\ advances < MaxAdvances
  /\ \A c \in Conns : tickAt[c] # NoTick => now + d <= tickAt[c]
  /\ \A c \in Conns : Starting(c) => now + d - regAt[c] <= heartbeatJitter
  /\ now' = now + d
  /\ advances' = advances + 1
  /\ maxSilence' = [c \in Conns |->
                      IF c \in DOMAIN state /\ now + d - lastHeartbeat[c] > maxSilence[c]
                        THEN now + d - lastHeartbeat[c] ELSE maxSilence[c]]
  /\ UNCHANGED <<state, sockOpen, seq, frames, wsPc, wsEvt, targets, initTodo, out, inits,
                 initLimit>>
  /\ UNCHANGED <<lastHeartbeat, misses, tickAt, beats, regAt, droppedAt, wsHist>>
  /\ UNCHANGED <<storeVars, taskVars, histVars, clientVars, muVars, otherVars>>

\* handleConn, lines 142-144: a Heartbeat frame; touchHeartbeat, lines
\* 201-211, then the acknowledgement is handed to writeJSON
handleHeartbeat(c) ==
  /\ wsPc[c] = "read"
  /\ c \in sockOpen
  /\ beats < MaxBeats
  /\ beats' = beats + 1
  /\ lastHeartbeat' = IF c \in DOMAIN state THEN [lastHeartbeat EXCEPT ![c] = now]
                      ELSE lastHeartbeat
  /\ out' = [out EXCEPT ![c] =
               [conn |-> c, msg |-> wsMessage(opHeartbeat, "", "", NoData, FALSE)]]
  /\ wsPc' = [wsPc EXCEPT ![c] = "writeJSON"]
  /\ lastFrame' = [lastFrame EXCEPT ![c] = [Op |-> opHeartbeat, d |-> NoInitData,
                                            at |-> Len(frames[c])]]
  /\ UNCHANGED <<state, sockOpen, seq, frames, wsEvt, targets, initTodo, inits, initLimit>>
  /\ UNCHANGED <<now, misses, tickAt, hbHist, allocs, initMark, bcMark>>
  /\ UNCHANGED <<storeVars, taskVars, histVars, clientVars, muVars, otherVars>>

\* a default branch that passes over a frame without op field
handleUnknownSkipsMissing(c, f) ==
  /\ wsPc[c] = "read"
  /\ c \in sockOpen
  /\ decodeOp(f) \notin {opInitialize, opHeartbeat}
  /\ lastFrame' = [lastFrame EXCEPT ![c] = [Op |-> decodeOp(f), d |-> NoInitData,
                                            at |-> Len(frames[c])]]
  /\ IF f.hasOp
       THEN /\ out' = [out EXCEPT ![c] =
                         [conn |-> c, msg |-> closeMessage(4004, "unknown_opcode")]]
            /\ wsPc' = [wsPc EXCEPT ![c] = "closeWithCode"]
       ELSE UNCHANGED <<out, wsPc>>
  /\ UNCHANGED <<state, sockOpen, seq, frames, wsEvt, targets, initTodo, inits, initLimit>>
  /\ UNCHANGED <<hbVars, allocs, initMark, bcMark>>
  /\ UNCHANGED <<storeVars, taskVars, histVars, clientVars, muVars, otherVars>>

\* handleConn, lines 145-148: the default branch of the switch on msg.Op
handleUnknown(c, f) ==
  /\ wsPc[c] = "read"
  /\ c \in sockOpen
  /\ decodeOp(f) \notin {opInitialize, opHeartbeat}
  /\ lastFrame' = [lastFrame EXCEPT ![c] = [Op |-> decodeOp(f), d |-> NoInitData,
                                            at |-> Len(frames[c])]]
  /\ out' = [out EXCEPT ![c] = [conn |-> c, msg |-> closeMessage(4004, "unknown_opcode")]]
  /\ wsPc' = [wsPc EXCEPT ![c] = "closeWithCode"]
  /\ UNCHANGED <<state, sockOpen, seq, frames, wsEvt, targets, initTodo, inits, initLimit>>
  /\ UNCHANGED <<hbVars, allocs, initMark, bcMark>>
  /\ UNCHANGED <<storeVars, taskVars, histVars, clientVars, muVars, otherVars>>

\* closeWithCode, line 325; writeControl, lines 267-275: the close frame is
\* written to a registered connection
writeControl(c) ==
  /\ wsPc[c] = "closeWithCode"
  /\ frames' = IF c \in DOMAIN state /\ c \in sockOpen
                 THEN [frames EXCEPT ![c] = Append(@, [out[c].msg EXCEPT !.subs = Subs(c)])]
                 ELSE frames
  /\ wsPc' = [wsPc EXCEPT ![c] = "cleanupConn"]
  /\ UNCHANGED <<state, sockOpen, seq, wsEvt, targets, initTodo, out, inits, initLimit>>
  /\ UNCHANGED <<hbVars, wsHist>>
  /\ UNCHANGED <<storeVars, taskVars, histVars, clientVars, muVars, otherVars>>

\* closeWithCode, line 326: cleanupConn.  After code 4004 handleConn returns
\* (its deferred cleanupConn finds nothing left to do); handleInit returns
\* to the read loop, whose ReadJSON fails on the closed socket
closeWithCode(c) ==
  /\ wsPc[c] = "cleanupConn"
  /\ cleanupConn(c)
  /\ wsPc' = [wsPc EXCEPT ![c] = IF out[c].msg.Code = 4004 THEN "closed" ELSE "read"]
  /\ UNCHANGED <<seq, frames, wsEvt, targets, initTodo, out, inits, initLimit>>
  /\ UNCHANGED <<hbVars, wsHist>>
  /\ UNCHANGED <<storeVars, taskVars, histVars, clientVars, muVars, otherVars>>

\* a handleConn that returns from a failed ReadJSON without cleanupConn
readErrorNoCleanup(c) ==
  /\ wsPc[c] = "read"
  /\ wsPc' = [wsPc EXCEPT ![c] = "closed"]
  /\ UNCHANGED <<state, sockOpen, seq, frames, wsEvt, targets, initTodo, out, inits, initLimit>>
  /\ UNCHANGED <<hbVars, wsHist>>
  /\ UNCHANGED <<storeVars, taskVars, histVars, clientVars, muVars, otherVars>>

\* ReadJSON fails (the client went away, or the socket is closed):
\* handleConn returns and its deferred cleanupConn runs
readError(c) ==
  /\ wsPc[c] = "read"
  /\ cleanupConn(c)
  /\ wsPc' = [wsPc EXCEPT ![c] = "closed"]
  /\ UNCHANGED <<seq, frames, wsEvt, targets, initTodo, out, inits, initLimit>>
  /\ UNCHANGED <<hbVars, wsHist>>
  /\ UNCHANGED <<storeVars, taskVars, histVars, clientVars, muVars, otherVars>>

\* a sendEvent that takes a number from the counter and leaves it off the frame
sendEventUnnumbered(th) ==
  /\ wsPc[th] = "sendEvent"
  /\ seq' = seq + 1
  /\ allocs' = Append(allocs, seq + 1)
  /\ wsPc' = [wsPc EXCEPT ![th] = "writeJSON"]
  /\ UNCHANGED <<state, sockOpen, frames, wsEvt, targets, initTodo, out, inits, initLimit>>
  /\ UNCHANGED <<hbVars, initMark, lastFrame, bcMark>>
  /\ UNCHANGED <<storeVars, taskVars, histVars, clientVars, muVars, otherVars>>

\* sendEvent with a nextSeq that hands out the counter without advancing it
sendEventStale(th) ==
  /\ wsPc[th] = "sendEvent"
  /\ seq' = IF seq = 0 THEN 1 ELSE seq
  /\ out' = [out EXCEPT ![th].msg.Seq = seq']
  /\ allocs' = Append(allocs, seq')
  /\ wsPc' = [wsPc EXCEPT ![th] = "writeJSON"]
  /\ UNCHANGED <<state, sockOpen, frames, wsEvt, targets, initTodo, inits, initLimit>>
  /\ UNCHANGED <<hbVars, initMark, lastFrame, bcMark>>
  /\ UNCHANGED <<storeVars, taskVars, histVars, clientVars, muVars, otherVars>>

\* sendEvent, line 244: the message takes the next seq (nextSeq, line 343)
sendEvent(th) ==
  /\ wsPc[th] = "sendEvent"
  /\ seq' = seq + 1
  /\ out' = [out EXCEPT ![th].msg.Seq = seq + 1]
  /\ allocs' = Append(allocs, seq + 1)
  /\ wsPc' = [wsPc EXCEPT ![th] = "writeJSON"]
  /\ UNCHANGED <<state, sockOpen, frames, wsEvt, targets, initTodo, inits, initLimit>>
  /\ UNCHANGED <<hbVars, initMark, lastFrame, bcMark>>
  /\ UNCHANGED <<storeVars, taskVars, histVars, clientVars, muVars, otherVars>>

\* writeJSON, lines 255-260: the registry lookup under stateMu
writeJSON(th) ==
  /\ wsPc[th] = "writeJSON"
  /\ wsPc' = [wsPc EXCEPT ![th] = IF out[th].conn \in DOMAIN state THEN "WriteJSON"
                                  ELSE AfterWrite(th)]
  /\ UNCHANGED <<state, sockOpen, seq, frames, wsEvt, targets, initTodo, out, inits, initLimit>>
  /\ UNCHANGED <<hbVars, wsHist>>
  /\ UNCHANGED <<storeVars, taskVars, histVars, clientVars, muVars, otherVars>>

\* writeJSON, lines 261-263: the write under writeMu; it fails on a socket
\* that cleanupConn has closed (the cleanup sendEvent then starts finds the
\* connection unregistered and closed already)
connWriteJSON(th) ==
  /\ wsPc[th] = "WriteJSON"
  /\ LET c == out[th].conn
     IN frames' = IF c \in sockOpen
                    THEN [frames EXCEPT ![c] = Append(@, [out[th].msg EXCEPT !.subs = Subs(c)])]
                    ELSE frames
  /\ wsPc' = [wsPc EXCEPT ![th] = AfterWrite(th)]
  /\ UNCHANGED <<state, sockOpen, seq, wsEvt, targets, initTodo, out, inits, initLimit>>
  /\ UNCHANGED <<hbVars, wsHist>>
  /\ UNCHANGED <<storeVars, taskVars, histVars, clientVars, muVars, otherVars>>

\* a broadcast that takes every registered connection as target, subscribed
\* or not
wsBroadcastAll ==
  /\ wsPc["bc"] = "idle"
  /\ chans[ServerWatcher] # << >>
  /\ chans' = [chans EXCEPT ![ServerWatcher] = Tail(@)]
  /\ LET e == Head(chans[ServerWatcher])
         ts == DOMAIN state
     IN /\ wsEvt' = e
        /\ targets' = ts
        /\ wsPc' = [wsPc EXCEPT !["bc"] = IF ts = {} THEN "idle" ELSE "broadcast"]
  /\ bcMark' = [taken |-> TRUE, at |-> [c \in Conns |-> Len(frames[c])],
                subs |-> [c \in DOMAIN state |-> state[c].subs]]
  /\ UNCHANGED <<state, sockOpen, seq, frames, initTodo, out, inits, initLimit>>
  /\ UNCHANGED <<hbVars, allocs, initMark, lastFrame>>
  /\ UNCHANGED <<data, watchers, closed, nextWatcherID, rlock, taskVars, histVars, clientVars,
                 muVars, otherVars>>

\* the consumer of NewServer, line 93, takes an event; broadcast, lines
\* 279-290: the targets snapshot under stateMu
wsBroadcast ==
  /\ wsPc["bc"] = "idle"
  /\ chans[ServerWatcher] # << >>
  /\ chans' = [chans EXCEPT ![ServerWatcher] = Tail(@)]
  /\ LET e == Head(chans[ServerWatcher])
         ts == {c \in DOMAIN state : e.UserID \in state[c].subs}
     IN /\ wsEvt' = e
        /\ targets' = ts
        /\ wsPc' = [wsPc EXCEPT !["bc"] = IF ts = {} THEN "idle" ELSE "broadcast"]
  /\ bcMark' = [taken |-> TRUE, at |-> [c \in Conns |-> Len(frames[c])],
                subs |-> [c \in DOMAIN state |-> state[c].subs]]
  /\ UNCHANGED <<state, sockOpen, seq, frames, initTodo, out, inits, initLimit>>
  /\ UNCHANGED <<hbVars, allocs, initMark, lastFrame>>
  /\ UNCHANGED <<data, watchers, closed, nextWatcherID, rlock, taskVars, histVars, clientVars,
                 muVars, otherVars>>

\* broadcast, lines 298-307: the payload, and one iteration of the loop over
\* targets (their order is the map's iteration order)
wsBroadcastSend ==
  /\ wsPc["bc"] = "broadcast"
  /\ IF targets = {}
       THEN /\ wsPc' = [wsPc EXCEPT !["bc"] = "idle"]
            /\ UNCHANGED <<targets, out>>
       ELSE \E c \in targets :
              /\ targets' = targets \ {c}
              /\ out' = [out EXCEPT !["bc"] =
                           [conn |-> c,
                            msg |-> IF wsEvt.Removed
                                      THEN wsMessage(opEvent, "PRESENCE_UPDATE", wsEvt.UserID,
                                                     NoData, TRUE)
                                      ELSE wsMessage(opEvent, "PRESENCE_UPDATE", wsEvt.UserID,
                                                     SomeData(wsEvt.Presence), FALSE)]]
              /\ wsPc' = [wsPc EXCEPT !["bc"] = "sendEvent"]
  /\ UNCHANGED <<state, sockOpen, seq, frames, wsEvt, initTodo, inits, initLimit>>
  /\ UNCHANGED <<hbVars, wsHist>>
  /\ UNCHANGED <<storeVars, taskVars, histVars, clientVars, muVars, otherVars>>

(***************************************************************************)
(* The same socket operations step by step: taking writeMu, the call on    *)
(* the socket, releasing writeMu.  A thread is in onSock of a connection   *)
(* while its WriteJSON, WriteControl or Close on that socket is running.   *)
(***************************************************************************)
\* writeJSON, lines 261-262: writeMu.Lock, conn.WriteJSON begins
beginWrite(th) ==
  /\ wsPc[th] = "WriteJSON"
  /\ writeMu[out[th].conn] = NoThread
  /\ writeMu' = [writeMu EXCEPT ![out[th].conn] = th]
  /\ onSock' = [onSock EXCEPT ![out[th].conn] = @ \cup {th}]
  /\ wsPc' = [wsPc EXCEPT ![th] = "writing"]
  /\ UNCHANGED <<state, sockOpen, seq, frames, wsEvt, targets, initTodo, out, inits, initLimit>>
  /\ UNCHANGED <<hbVars, wsHist, mainPc>>
  /\ UNCHANGED <<storeVars, taskVars, histVars, clientVars, otherVars>>

\* writeJSON, lines 262-263: conn.WriteJSON returns, writeMu.Unlock
endWrite(th) ==
  /\ wsPc[th] = "writing"
  /\ LET c == out[th].conn
     IN /\ frames' = IF c \in sockOpen
                       THEN [frames EXCEPT ![c] = Append(@, [out[th].msg EXCEPT !.subs = Subs(c)])]
                       ELSE frames
        /\ writeMu' = [writeMu EXCEPT ![c] = NoThread]
        /\ onSock' = [onSock EXCEPT ![c] = @ \ {th}]
  /\ wsPc' = [wsPc EXCEPT ![th] = AfterWrite(th)]
  /\ UNCHANGED <<state, sockOpen, seq, wsEvt, targets, initTodo, out, inits, initLimit>>
  /\ UNCHANGED <<hbVars, wsHist, mainPc>>
  /\ UNCHANGED <<storeVars, taskVars, histVars, clientVars, otherVars>>

\* writeControl, lines 267-274: the registry lookup, writeMu.Lock,
\* conn.WriteControl begins
beginControl(c) ==
  /\ wsPc[c] = "closeWithCode"
  /\ IF c \in DOMAIN state
       THEN /\ writeMu[c] = NoThread
            /\ writeMu' = [writeMu EXCEPT ![c] = c]
            /\ onSock' = [onSock EXCEPT ![c] = @ \cup {c}]
            /\ wsPc' = [wsPc EXCEPT ![c] = "controlling"]
       ELSE /\ wsPc' = [wsPc EXCEPT ![c] = "cleanupConn"]
            /\ UNCHANGED <<writeMu, onSock>>
  /\ UNCHANGED <<state, sockOpen, seq, frames, wsEvt, targets, initTodo, out, inits, initLimit>>
  /\ UNCHANGED <<hbVars, wsHist, mainPc>>
  /\ UNCHANGED <<storeVars, taskVars, histVars, clientVars, otherVars>>

\* writeControl, lines 274-275: conn.WriteControl returns, writeMu.Unlock
endControl(c) ==
  /\ wsPc[c] = "controlling"
  /\ frames' = IF c \in sockOpen
                 THEN [frames EXCEPT ![c] = Append(@, [out[c].msg EXCEPT !.subs = Subs(c)])]
                 ELSE frames
  /\ writeMu' = [writeMu EXCEPT ![c] = NoThread]
  /\ onSock' = [onSock EXCEPT ![c] = @ \ {c}]
  /\ wsPc' = [wsPc EXCEPT ![c] = "cleanupConn"]
  /\ UNCHANGED <<state, sockOpen, seq, wsEvt, targets, initTodo, out, inits, initLimit>>
  /\ UNCHANGED <<hbVars, wsHist, mainPc>>
  /\ UNCHANGED <<storeVars, taskVars, histVars, clientVars, otherVars>>

\* handleConn, lines 136-138: ReadJSON fails and handleConn returns into its
\* deferred cleanupConn
readReturn(c) ==
  /\ wsPc[c] = "read"
  /\ wsPc' = [wsPc EXCEPT ![c] = "cleanupConn"]
  /\ UNCHANGED <<state, sockOpen, seq, frames, wsEvt, targets, initTodo, out, inits, initLimit>>
  /\ UNCHANGED <<hbVars, wsHist, muVars>>
  /\ UNCHANGED <<storeVars, taskVars, histVars, clientVars, otherVars>>

\* cleanupConn, lines 311-314: the lookup and the delete under stateMu
cleanupDelete(c) ==
  /\ wsPc[c] = "cleanupConn"
  /\ state' = Delete(state, c)
  /\ wsPc' = [wsPc EXCEPT ![c] = IF c \in DOMAIN state THEN "closeLocked" ELSE "closeBare"]
  /\ UNCHANGED <<sockOpen, seq, frames, wsEvt, targets, initTodo, out, inits, initLimit>>
  /\ UNCHANGED <<hbVars, wsHist, muVars>>
  /\ UNCHANGED <<storeVars, taskVars, histVars, clientVars, otherVars>>

\* cleanupConn, lines 315-320: conn.Close begins, under writeMu when the
\* connection was registered (line 316) and without it otherwise (line 320)
beginClose(c) ==
  /\ \/ /\ wsPc[c] = "closeLocked"
        /\ writeMu[c] = NoThread
        /\ writeMu' = [writeMu EXCEPT ![c] = c]
        /\ wsPc' = [wsPc EXCEPT ![c] = "closing"]
     \/ /\ wsPc[c] = "closeBare"
        /\ wsPc' = [wsPc EXCEPT ![c] = "closingBare"]
        /\ UNCHANGED writeMu
  /\ onSock' = [onSock EXCEPT ![c] = @ \cup {c}]
  /\ UNCHANGED <<state, sockOpen, seq, frames, wsEvt, targets, initTodo, out, inits, initLimit>>
  /\ UNCHANGED <<hbVars, wsHist, mainPc>>
  /\ UNCHANGED <<storeVars, taskVars, histVars, clientVars, otherVars>>

\* cleanupConn, lines 317-321: conn.Close returns.  After the cleanupConn of
\* closeWithCode the reader comes to the deferred cleanupConn of handleConn
endClose(c) ==
  /\ wsPc[c] \in {"closing", "closingBare"}
  /\ sockOpen' = sockOpen \ {c}
  /\ writeMu' = IF wsPc[c] = "closing" THEN [writeMu EXCEPT ![c] = NoThread] ELSE writeMu
  /\ onSock' = [onSock EXCEPT ![c] = @ \ {c}]
  /\ wsPc' = [wsPc EXCEPT ![c] = IF wsPc[c] = "closing" /\ out[c].msg.Op = opClose
                                   THEN "cleanupConn" ELSE "closed"]
  /\ UNCHANGED <<state, seq, frames, wsEvt, targets, initTodo, out, inits, initLimit>>
  /\ UNCHANGED <<hbVars, wsHist, mainPc>>
  /\ UNCHANGED <<storeVars, taskVars, histVars, clientVars, otherVars>>

\* a Server.Close that leaves the store subscription alone
serverCloseKeepsSubscription ==
  /\ mainPc \in {"idle", "closed"}
  /\ closes < MaxCloses
  /\ rlock = {}
  /\ mainPc' = "cancelled"
  /\ UNCHANGED <<data, chans, watchers, closed, nextWatcherID, rlock, taskVars, histVars,
                 clientVars, otherVars>>
  /\ UNCHANGED <<state, sockOpen, seq, frames, wsPc, wsEvt, targets, initTodo, out, inits,
                 initLimit, hbVars, wsHist, writeMu, onSock>>

\* Server.Close, lines 331-333: s.cancel(), the cancel closure of the server's
\* subscription
serverCloseCancel ==
  /\ mainPc \in {"idle", "closed"}
  /\ closes < MaxCloses
  /\ rlock = {}
  /\ IF ServerWatcher \in watchers
       THEN /\ watchers' = watchers \ {ServerWatcher}
            /\ closed' = [closed EXCEPT ![ServerWatcher] = @ + 1]
       ELSE UNCHANGED <<watchers, closed>>
  /\ mainPc' = "cancelled"
  /\ UNCHANGED <<data, chans, nextWatcherID, rlock, taskVars, histVars, clientVars, otherVars>>
  /\ UNCHANGED <<state, sockOpen, seq, frames, wsPc, wsEvt, targets, initTodo, out, inits,
                 initLimit, hbVars, wsHist, writeMu, onSock>>

\* the consumer of NewServer, line 93: the range loop ends when the channel
\* is closed and empty
wsConsumerExit ==
  /\ wsPc["bc"] = "idle"
  /\ chans[ServerWatcher] = << >>
  /\ closed[ServerWatcher] > 0
  /\ wsPc' = [wsPc EXCEPT !["bc"] = "ended"]
  /\ UNCHANGED <<state, sockOpen, seq, frames, wsEvt, targets, initTodo, out, inits, initLimit>>
  /\ UNCHANGED <<hbVars, wsHist, muVars>>
  /\ UNCHANGED <<storeVars, taskVars, histVars, clientVars, otherVars>>

\* Server.Close, lines 334-337: stateMu.Lock, conn.Close begins on every
\* registered connection
beginServerClose ==
  /\ mainPc = "cancelled"
  /\ mainPc' = "closing"
  /\ onSock' = [c \in Conns |-> IF c \in DOMAIN state THEN onSock[c] \cup {"main"}
                                 ELSE onSock[c]]
  /\ UNCHANGED <<state, sockOpen, seq, frames, wsPc, wsEvt, targets, initTodo, out, inits,
                 initLimit>>
  /\ UNCHANGED <<hbVars, wsHist, writeMu>>
  /\ UNCHANGED <<storeVars, taskVars, histVars, clientVars, otherVars>>

\* Server.Close, lines 336-339: the Close calls return, the registry is
\* replaced by an empty one, stateMu.Unlock
endServerClose ==
  /\ mainPc = "closing"
  /\ mainPc' = "closed"
  /\ sockOpen' = sockOpen \ DOMAIN state
  /\ state' = << >>
  /\ onSock' = [c \in Conns |-> onSock[c] \ {"main"}]
  /\ closes' = closes + 1
  /\ closedConns' = closedConns \cup DOMAIN state
  /\ UNCHANGED <<seq, frames, wsPc, wsEvt, targets, initTodo, out, inits, initLimit>>
  /\ UNCHANGED <<hbVars, wsHist, writeMu>>
  /\ UNCHANGED <<storeVars, taskVars, histVars, clientVars, callVars, limitVars, panicVars, faultVars>>

\* Server.stateMu is not held by Server.Close
stateMuFree == mainPc # "closing"

(***************************************************************************)
(* SpecSocket: one gateway task writes to the store, the socket server     *)
(* fans the events out to connection c1, whose client sends Initialize     *)
(* frames.                                                                 *)
(***************************************************************************)
SocketPresencePayloads ==
  { PresenceUpdate(RawUser("1", "x", ""), "online", << >>),
    PresenceUpdate(RawUser("1", "", ""), "offline", << >>) }

InitIds ==
  { InitData("object", "", << >>), InitData("object", "1", << >>),
    InitData("object", "2", << >>) }

InitSocket ==
  /\ data = << >>
  /\ watchers = {ServerWatcher}
  /\ chans = [w \in WatcherIds |-> << >>]
  /\ closed = [w \in WatcherIds |-> 0]
  /\ nextWatcherID = 1
  /\ rlock = {}
  /\ pc = [t \in Tasks |-> "idle"]
  /\ kind = [t \in Tasks |-> "none"]
  /\ taken = [t \in Tasks |-> NoTaken]
  /\ op = [t \in Tasks |-> "none"]
  /\ uid = [t \in Tasks |-> ""]
  /\ pres = [t \in Tasks |-> ZeroPresence]
  /\ evt = [t \in Tasks |-> NoEvent]
  /\ todo = [t \in Tasks |-> {}]
  /\ work = [t \in Tasks |-> NoChunk]
  /\ lookup = [t \in Tasks |-> << >>]
  /\ sub = [c \in Clients |-> NoWatcher]
  /\ events = 0
  /\ limit = MaxSocketEvents
  /\ initLimit = MaxInits
  /\ commits = 0
  /\ lastWrite = [u \in Users |-> "none"]
  /\ had = [t \in Tasks |-> FALSE]
  /\ fanout = [t \in Tasks |-> {}]
  /\ delivered = [t \in Tasks |-> << >>]
  /\ cancelCalls = [c \in Clients |-> 0]
  /\ InitServer
  /\ InitOther

NextSocket ==
  \/ \E payload \in SocketPresencePayloads : handleRawPresence("g1", payload)
  \/ handleRawPresenceSet("g1")
  \/ broadcastLock("g1")
  \/ \E w \in WatcherIds : broadcastSend("g1", w)
  \/ broadcastUnlock("g1")
  \/ \E c \in {"c1"} : wsServeHTTP(c)
  \/ \E c \in {"c1"} : goWatchHeartbeats(c)
  \/ \E c \in {"c1"} : \E d \in InitIds : handleInit(c, d)
  \/ \E c \in {"c1"} : writeControl(c)
  \/ \E c \in {"c1"} : closeWithCode(c)
  \/ \E c \in {"c1"} : handleInitState(c)
  \/ \E c \in {"c1"} : readError(c)
  \/ \E th \in {"bc", "c1"} : sendEvent(th)
  \/ \E th \in {"bc", "c1"} : writeJSON(th)
  \/ \E th \in {"bc", "c1"} : connWriteJSON(th)
  \/ wsBroadcast
  \/ wsBroadcastSend

SpecSocket == InitSocket /\ [][NextSocket]_vars

(***************************************************************************)
(* SpecProtocol: the frames a client can send on connection c1 (Initialize *)
(* with every kind of d, and frames with other opcodes), while one gateway *)
(* task fills the store.                                                   *)
(***************************************************************************)
ProtoPresencePayloads == { PresenceUpdate(RawUser("1", "x", ""), "online", << >>) }

InitPayloads ==
  { InitData("null", "", << >>),
    InitData("string", "", << >>),
    InitData("object", "", << >>),
    InitData("object", "", <<"">>),
    InitData("object", "1", <<"1", "2">>),
    InitData("object", "", <<"2", "", "2">>) }

UnknownFrames ==
  { ClientFrame(FALSE, 0), ClientFrame(TRUE, 0), ClientFrame(TRUE, 1), ClientFrame(TRUE, 4) }

InitProtocol ==
  /\ data = << >>
  /\ watchers = {ServerWatcher}
  /\ chans = [w \in WatcherIds |-> << >>]
  /\ closed = [w \in WatcherIds |-> 0]
  /\ nextWatcherID = 1
  /\ rlock = {}
  /\ pc = [t \in Tasks |-> "idle"]
  /\ kind = [t \in Tasks |-> "none"]
  /\ taken = [t \in Tasks |-> NoTaken]
  /\ op = [t \in Tasks |-> "none"]
  /\ uid = [t \in Tasks |-> ""]
  /\ pres = [t \in Tasks |-> ZeroPresence]
  /\ evt = [t \in Tasks |-> NoEvent]
  /\ todo = [t \in Tasks |-> {}]
  /\ work = [t \in Tasks |-> NoChunk]
  /\ lookup = [t \in Tasks |-> << >>]
  /\ sub = [c \in Clients |-> NoWatcher]
  /\ events = 0
  /\ limit = MaxProtoEvents
  /\ initLimit = MaxProtoInits
  /\ commits = 0
  /\ lastWrite = [u \in Users |-> "none"]
  /\ had = [t \in Tasks |-> FALSE]
  /\ fanout = [t \in Tasks |-> {}]
  /\ delivered = [t \in Tasks |-> << >>]
  /\ cancelCalls = [c \in Clients |-> 0]
  /\ InitServer
  /\ InitOther

NextProtocol ==
  \/ \E payload \in ProtoPresencePayloads : handleRawPresence("g1", payload)
  \/ handleRawPresenceSet("g1")
  \/ broadcastLock("g1")
  \/ \E w \in WatcherIds : broadcastSend("g1", w)
  \/ broadcastUnlock("g1")
  \/ wsServeHTTP("c1")
  \/ goWatchHeartbeats("c1")
  \/ \E d \in InitPayloads : handleInit("c1", d)
  \/ handleInitState("c1")
  \/ \E f \in UnknownFrames : handleUnknown("c1", f)
  \/ writeControl("c1")
  \/ closeWithCode("c1")
  \/ readError("c1")
  \/ \E th \in {"bc", "c1"} : sendEvent(th)
  \/ \E th \in {"bc", "c1"} : writeJSON(th)
  \/ \E th \in {"bc", "c1"} : connWriteJSON(th)
  \/ wsBroadcast
  \/ wsBroadcastSend

SpecProtocol == InitProtocol /\ [][NextProtocol]_vars

(***************************************************************************)
(* SpecHeartbeat: connection c1 with its heartbeat watcher and a clock.    *)
(* The client sends one Initialize and Heartbeat frames when it likes; the *)
(* store stays empty.                                                      *)
(***************************************************************************)
Steps == {1, 1000, 30000}

InitHeartbeat ==
  /\ data = << >>
  /\ watchers = {ServerWatcher}
  /\ chans = [w \in WatcherIds |-> << >>]
  /\ closed = [w \in WatcherIds |-> 0]
  /\ nextWatcherID = 1
  /\ rlock = {}
  /\ pc = [t \in Tasks |-> "idle"]
  /\ kind = [t \in Tasks |-> "none"]
  /\ taken = [t \in Tasks |-> NoTaken]
  /\ op = [t \in Tasks |-> "none"]
  /\ uid = [t \in Tasks |-> ""]
  /\ pres = [t \in Tasks |-> ZeroPresence]
  /\ evt = [t \in Tasks |-> NoEvent]
  /\ todo = [t \in Tasks |-> {}]
  /\ work = [t \in Tasks |-> NoChunk]
  /\ lookup = [t \in Tasks |-> << >>]
  /\ sub = [c \in Clients |-> NoWatcher]
  /\ events = 0
  /\ limit = 0
  /\ initLimit = MaxHbInits
  /\ commits = 0
  /\ lastWrite = [u \in Users |-> "none"]
  /\ had = [t \in Tasks |-> FALSE]
  /\ fanout = [t \in Tasks |-> {}]
  /\ delivered = [t \in Tasks |-> << >>]
  /\ cancelCalls = [c \in Clients |-> 0]
  /\ InitServer
  /\ InitOther

NextHeartbeat ==
  \/ wsServeHTTP("c1")
  \/ goWatchHeartbeats("c1")
  \/ handleInit("c1", InitData("object", "1", << >>))
  \/ handleInitState("c1")
  \/ handleHeartbeat("c1")
  \/ writeJSON("c1")
  \/ connWriteJSON("c1")
  \/ readError("c1")
  \/ watchHeartbeats("c1")
  \/ \E d \in Steps : Advance(d)

SpecHeartbeat == InitHeartbeat /\ [][NextHeartbeat]_vars

(***************************************************************************)
(* SpecMutex: the socket of connection c1 with its operations step by      *)
(* step.  Its users are the reader, the broadcast consumer and the caller  *)
(* of Server.Close.                                                        *)
(***************************************************************************)
InitMutex ==
  /\ data = << >>
  /\ watchers = {ServerWatcher}
  /\ chans = [w \in WatcherIds |-> << >>]
  /\ closed = [w \in WatcherIds |-> 0]
  /\ nextWatcherID = 1
  /\ rlock = {}
  /\ pc = [t \in Tasks |-> "idle"]
  /\ kind = [t \in Tasks |-> "none"]
  /\ taken = [t \in Tasks |-> NoTaken]
  /\ op = [t \in Tasks |-> "none"]
  /\ uid = [t \in Tasks |-> ""]
  /\ pres = [t \in Tasks |-> ZeroPresence]
  /\ evt = [t \in Tasks |-> NoEvent]
  /\ todo = [t \in Tasks |-> {}]
  /\ work = [t \in Tasks |-> NoChunk]
  /\ lookup = [t \in Tasks |-> << >>]
  /\ sub = [c \in Clients |-> NoWatcher]
  /\ events = 0
  /\ limit = MaxMutexEvents
  /\ initLimit = MaxMutexInits
  /\ commits = 0
  /\ lastWrite = [u \in Users |-> "none"]
  /\ had = [t \in Tasks |-> FALSE]
  /\ fanout = [t \in Tasks |-> {}]
  /\ delivered = [t \in Tasks |-> << >>]
  /\ cancelCalls = [c \in Clients |-> 0]
  /\ InitServer
  /\ InitOther

NextMutex ==
  \/ \E payload \in ProtoPresencePayloads : handleRawPresence("g1", payload)
  \/ handleRawPresenceSet("g1")
  \/ broadcastLock("g1")
  \/ \E w \in WatcherIds : broadcastSend("g1", w)
  \/ broadcastUnlock("g1")
  \/ stateMuFree /\ wsServeHTTP("c1")
  \/ goWatchHeartbeats("c1")
  \/ stateMuFree /\ handleInit("c1", InitData("object", "1", << >>))
  \/ handleInitState("c1")
  \/ \E f \in UnknownFrames : handleUnknown("c1", f)
  \/ readReturn("c1")
  \/ \E th \in {"bc", "c1"} : sendEvent(th)
  \/ \E th \in {"bc", "c1"} : stateMuFree /\ writeJSON(th)
  \/ \E th \in {"bc", "c1"} : beginWrite(th)
  \/ \E th \in {"bc", "c1"} : endWrite(th)
  \/ stateMuFree /\ beginControl("c1")
  \/ endControl("c1")
  \/ stateMuFree /\ cleanupDelete("c1")
  \/ beginClose("c1")
  \/ endClose("c1")
  \/ stateMuFree /\ wsBroadcast
  \/ wsBroadcastSend
  \/ serverCloseCancel
  \/ wsConsumerExit
  \/ beginServerClose
  \/ endServerClose

SpecMutex == InitMutex /\ [][NextMutex]_vars

(***************************************************************************)
(* Properties.                                                             *)
(***************************************************************************)
\* the events of a buffer that a SetPresence or RemovePresence commit produced
RECURSIVE Versions(_)
Versions(buf) ==
  IF buf = << >> THEN << >>
  ELSE IF Head(buf).ver > 0 THEN <<Head(buf).ver>> \o Versions(Tail(buf))
       ELSE Versions(Tail(buf))

Increasing(vs) == \A i \in 1 .. Len(vs) - 1 : vs[i] < vs[i + 1]

\* C1: the events of SetPresence and RemovePresence calls that sit in a
\* subscriber's channel are in the order in which the writes were committed
\* to the map (events may be missing, never reordered).
C1_CommitOrder == \A w \in WatcherIds : Increasing(Versions(chans[w]))

\* C2: no stored presence has discord_status "offline", whatever gateway
\* events were handled.
C2_NoOfflineStored == \A u \in DOMAIN data : data[u].DiscordStatus # "offline"

\* a task has returned from handleRawPresence's SetPresence(uid, pres) and no
\* other write to that user was committed after its own
SetReturned(t) ==
  /\ pc[t] = "idle"
  /\ kind[t] = "PRESENCE_UPDATE"
  /\ op[t] = "SetPresence"
  /\ lastWrite[uid[t]] = t

\* C3: every PRESENCE_UPDATE frame written to a socket names a user that is
\* in the connection's subscription set when the frame is written.
C3_SubscribedOnly ==
  \A c \in Conns : \A i \in 1 .. Len(frames[c]) :
    frames[c][i].T = "PRESENCE_UPDATE" => frames[c][i].UserID \in frames[c][i].subs

\* C4: after SetPresence(id, p) has returned and before any other write to
\* id, GetPresence(id) is (normalizePresence(p), true) and its Public field
\* is buildPublicPresence(p).
C4_SetThenGet ==
  \A t \in Tasks :
    SetReturned(t) =>
      /\ GetPresence(uid[t]) = <<normalizePresence(pres[t]), TRUE>>
      /\ GetPresence(uid[t])[1].Public = buildPublicPresence(pres[t])

\* C4 witness: a SetPresence has returned whose argument carried a stale
\* projection and a Spotify activity that the projection must leave out
C4_Witness ==
  \E t \in Tasks :
    /\ SetReturned(t)
    /\ pres[t].Public # buildPublicPresence(pres[t])
    /\ Len(pres[t].Activities.items) = 2
    /\ Len(data[uid[t]].Public.Activities.items) = 1

\* GET /v1/users/{user_id}: the status code SnapshotHandler.ServeHTTP answers
\* for an id made of digits
ServeHTTP(userID) == IF GetPresence(userID)[2] THEN 200 ELSE 404

\* a task has returned from handling a PRESENCE_UPDATE with status offline
\* for a user that had an entry
OfflineReturned(t) ==
  /\ pc[t] = "idle"
  /\ kind[t] = "PRESENCE_UPDATE"
  /\ op[t] = "RemovePresence"
  /\ had[t]

RemovedEvent(e, userID) == e.UserID = userID /\ e.Removed /\ e.Presence = ZeroPresence

C6_PublicConsistent ==
  \A u \in DOMAIN data : data[u].Public = buildPublicPresence(data[u])

\* C6 witness: an entry imported by a chunk (SetPresenceQuiet) whose
\* discord_user a member event then changed (UpdatePresenceQuiet), next to an
\* entry written by SetPresence
C6_Witness ==
  \E t \in Tasks :
    /\ op[t] = "UpdatePresenceQuiet" /\ lastWrite[uid[t]] = t
    /\ uid[t] \in DOMAIN data
    /\ data[uid[t]].DiscordStatus = "dnd"
    /\ data[uid[t]].Public.DiscordUser.DisplayName = "Mr X"
    /\ Len(data[uid[t]].Activities.items) = 2
    /\ Len(data[uid[t]].Public.Activities.items) = 1

\* a buffer that is as it was, or has lost its first event to the reader
Drained(old, new) == new = old \/ (old # << >> /\ new = Tail(old))

\* C7: once a subscriber's cancel has returned, the subscriber is not in the
\* watcher set and no step puts an event on its channel: the buffer can only
\* lose events to its reader.
C7_NoDeliveryAfterCancel ==
  [][\A c \in Clients :
       cancelCalls[c] >= 1 =>
         /\ sub[c] \notin watchers /\ sub[c] \notin watchers'
         /\ Drained(chans[sub[c]], chans'[sub[c]])]_vars

\* C7 witness: a subscriber that was served while subscribed has cancelled,
\* and a write committed before or after that is about to fan out
C7_Witness ==
  \E c \in Clients : \E t \in Tasks :
    /\ cancelCalls[c] >= 1
    /\ chans[sub[c]] # << >>
    /\ pc[t] = "send" /\ sub[c] \notin fanout[t] /\ fanout[t] # {}

\* C8: cancel is idempotent: after one or more calls the channel has been
\* closed exactly once and is not in the watcher set, and every call after
\* the first leaves the store as it is.
C8_CancelIdempotent ==
  [][\A c \in Clients :
       /\ cancelCalls'[c] >= 1 => (closed'[sub'[c]] = 1 /\ sub'[c] \notin watchers')
       /\ (cancelCalls[c] >= 1 /\ cancelCalls'[c] > cancelCalls[c]) => UNCHANGED storeVars]_vars

\* C8 witness: cancel was called twice, with a write committed to the store
C8_Witness ==
  \E c \in Clients : cancelCalls[c] = 2 /\ closed[sub[c]] = 1 /\ commits >= 1

(***************************************************************************)
(* SpecBurst: writes keep coming while no subscriber reads.  It starts     *)
(* where a burst of ChanCap - 1 identical updates for user "1" has left    *)
(* the store: subscriber 0 holds them all, subscriber 1 has read them all  *)
(* and reads no more.                                                      *)
(***************************************************************************)
BurstPayload == PresenceUpdate(RawUser("1", "x", ""), "online", << >>)

BurstPresence ==
  normalizePresence(BuildPresenceFromRaw(BurstPayload, BurstPayload.user, NoRawMember)[1])

BurstPresencePayloads ==
  { BurstPayload,
    PresenceUpdate(RawUser("1", "", ""), "DND", <<SpotifyActivity>>),
    PresenceUpdate(RawUser("1", "", ""), "offline", << >>) }

InitBurst ==
  /\ InitServer
  /\ InitOther
  /\ data = [u \in {"1"} |-> BurstPresence]
  /\ watchers = {0, 1}
  /\ chans = [w \in WatcherIds |->
               IF w = 0 THEN [k \in 1 .. ChanCap - 1 |-> PresenceEvent("1", BurstPresence, FALSE, k)]
               ELSE << >>]
  /\ closed = [w \in WatcherIds |-> 0]
  /\ nextWatcherID = 2
  /\ rlock = {}
  /\ pc = [t \in Tasks |-> "idle"]
  /\ kind = [t \in Tasks |-> "none"]
  /\ taken = [t \in Tasks |-> NoTaken]
  /\ op = [t \in Tasks |-> "none"]
  /\ uid = [t \in Tasks |-> ""]
  /\ pres = [t \in Tasks |-> ZeroPresence]
  /\ evt = [t \in Tasks |-> NoEvent]
  /\ todo = [t \in Tasks |-> {}]
  /\ work = [t \in Tasks |-> NoChunk]
  /\ lookup = [t \in Tasks |-> << >>]
  /\ sub = [c \in Clients |-> IF c = "s1" THEN 0 ELSE 1]
  /\ events = 0
  /\ limit = MaxBurst
  /\ initLimit = 0
  /\ commits = ChanCap - 1
  /\ lastWrite = [u \in Users |-> "none"]
  /\ had = [t \in Tasks |-> FALSE]
  /\ fanout = [t \in Tasks |-> {}]
  /\ delivered = [t \in Tasks |-> << >>]
  /\ cancelCalls = [c \in Clients |-> 0]

\* the steps of a task that is inside a handler
TaskStep(t) ==
  \/ handleRawPresenceSet(t)
  \/ UpsertChunkPresences(t)
  \/ BroadcastPresence(t)
  \/ broadcastLock(t)
  \/ \E w \in WatcherIds : broadcastSend(t, w)
  \/ broadcastUnlock(t)

NextBurst ==
  \/ \E t \in Tasks : \E payload \in BurstPresencePayloads : handleRawPresence(t, payload)
  \/ \E t \in Tasks : handleRawPresenceSet(t)
  \/ \E t \in Tasks : \E chunk \in FanoutChunkPayloads : TakeChunk(t, chunk)
  \/ \E t \in Tasks : UpsertChunkPresences(t)
  \/ \E t \in Tasks : BroadcastPresence(t)
  \/ \E t \in Tasks : broadcastLock(t)
  \/ \E t \in Tasks : \E w \in WatcherIds : broadcastSend(t, w)
  \/ \E t \in Tasks : broadcastUnlock(t)

\* the scheduler runs every goroutine that can take a step; nothing makes a
\* subscriber read
SpecBurst == InitBurst /\ [][NextBurst]_vars /\ \A t \in Tasks : WF_vars(TaskStep(t))

\* C9: a task that has entered a handler, and with it SetPresence,
\* RemovePresence or BroadcastPresence, always gets back out of it, although
\* no subscriber reads and the buffer of subscriber 0 is full.
C9_WritesTerminate == \A t \in Tasks : (pc[t] # "idle") ~> (pc[t] = "idle")

\* C9 witness: a store call has returned whose fan-out found a full buffer
C9_Witness ==
  \E t \in Tasks :
    /\ pc[t] = "idle"
    /\ op[t] \in {"SetPresence", "RemovePresence", "BroadcastPresence"}
    /\ 0 \in fanout[t] /\ delivered[t][0].depth = 16
    /\ Len(chans[0]) = 16

\* the map holds what the event of task t says
Reflects(t) ==
  IF evt[t].Removed THEN evt[t].UserID \notin DOMAIN data
  ELSE evt[t].UserID \in DOMAIN data /\ data[evt[t].UserID] = evt[t].Presence

\* C10: no buffer ever holds more than 16 events; a buffer that holds 16 is
\* changed by its reader only; and when a fan-out is over, every watcher
\* whose buffer had room got the event once, every watcher whose buffer held
\* 16 got nothing, and the map holds the write unless a later write to that
\* user was committed.
C10_FullChannelDrops ==
  [][/\ \A w \in WatcherIds : Len(chans'[w]) <= 16
     /\ \A w \in WatcherIds : Len(chans[w]) = 16 => Drained(chans[w], chans'[w])
     /\ \A t \in Tasks :
          (pc[t] = "send" /\ pc'[t] # "send") =>
            /\ \A w \in fanout[t] :
                 delivered[t][w].sent = IF delivered[t][w].depth < 16 THEN <<evt[t]>> ELSE << >>
            /\ (evt[t].ver > 0 /\ lastWrite[evt[t].UserID] = t) => Reflects(t)]_vars

\* C10 witness: a fan-out is over that found subscriber 0 full and
\* subscriber 1 with room, and the write is in the map
C10_Witness ==
  \E t \in Tasks :
    /\ pc[t] = "send" /\ todo[t] = {} /\ fanout[t] = {0, 1}
    /\ delivered[t][0].depth = 16 /\ delivered[t][0].sent = << >>
    /\ delivered[t][1].sent = <<evt[t]>>
    /\ evt[t].ver > 0 /\ lastWrite[evt[t].UserID] = t /\ Reflects(t)
    /\ evt[t].Presence.DiscordStatus = "dnd"

(***************************************************************************)
(* Properties of the websocket server.                                     *)
(***************************************************************************)
\* the positions of the op-0 frames written so far
EventFrames ==
  UNION {{<<c, i>> : i \in {j \in DOMAIN frames[c] : frames[c][j].Op = opEvent}} : c \in Conns}

\* C17: the seq of op-0 frames comes from one counter shared by all senders:
\* the first value handed out is 1, the values handed out increase strictly
\* in the order of their allocation, every op-0 frame carries a value that
\* was handed out, and no two op-0 frames carry the same one
C17_SeqAllocation ==
  /\ allocs # << >> => allocs[1] = 1
  /\ Increasing(allocs)
  /\ \A p \in EventFrames :
        /\ \E k \in DOMAIN allocs : allocs[k] = frames[p[1]][p[2]].Seq
        /\ \A q \in EventFrames : frames[p[1]][p[2]].Seq = frames[q[1]][q[2]].Seq => p = q

\* the broadcast consumer and a reader hold a seq each at the same time
C17_Witness ==
  /\ wsPc["bc"] = "writeJSON"
  /\ wsPc["c1"] = "writeJSON"
  /\ out["c1"].msg.Op = opEvent
  /\ out["bc"].msg.Seq # out["c1"].msg.Seq

\* the INIT_STATE frames for a user that the last Initialize of a connection
\* has produced
InitStates(c, u) ==
  {i \in DOMAIN frames[c] : /\ i > initMark[c].at
                            /\ frames[c][i].T = "INIT_STATE"
                            /\ frames[c][i].UserID = u}

CloseFrames(c, code, reason) ==
  {i \in DOMAIN frames[c] : /\ i > lastFrame[c].at
                            /\ frames[c][i].Op = opClose
                            /\ frames[c][i].Code = code
                            /\ frames[c][i].T = reason}

\* the reader is in the middle of closeWithCode
Closing(c) == wsPc[c] \in {"closeWithCode", "cleanupConn"}

\* C13: once the reader of a connection has handled a frame whose op is
\* neither 2 nor 3 (a frame without op field included), whether or not an
\* Initialize came before, one close frame with code 4004 and reason
\* unknown_opcode has been written, the connection is out of the registry,
\* its socket is closed and the reader has ended for good
C13_UnknownOpcodeCloses ==
  /\ [](\A c \in Conns :
          (lastFrame[c].Op \notin {NoFrame.Op, opInitialize, opHeartbeat} /\ ~Closing(c))
            => /\ Cardinality(CloseFrames(c, 4004, "unknown_opcode")) = 1
               /\ c \notin DOMAIN state
               /\ c \notin sockOpen
               /\ wsPc[c] = "closed")
  /\ [][\A c \in Conns : wsPc[c] = "closed" => wsPc'[c] = "closed"]_vars

\* a live connection, subscribed to users 1 and 2, was closed with 4004 for
\* a frame with op 1
C13_Witness ==
  /\ wsPc["c1"] = "closed"
  /\ lastFrame["c1"].Op = 1
  /\ \E i \in CloseFrames("c1", 4004, "unknown_opcode") : frames["c1"][i].subs = {"1", "2"}

\* the ids an Initialize payload names, empty strings left out
NamedIds(d) ==
  ({d.SubscribeToID} \cup {d.SubscribeToIDs[i] : i \in DOMAIN d.SubscribeToIDs}) \ {""}

\* what closeWithCode has to have done for the last frame of a connection
Rejected(c, code, reason) ==
  /\ Cardinality(CloseFrames(c, code, reason)) = 1
  /\ \A i \in DOMAIN frames[c] : i > lastFrame[c].at => frames[c][i].T # "INIT_STATE"
  /\ c \notin DOMAIN state
  /\ c \notin sockOpen

\* C14: once the reader has handled an Initialize whose d is null or not an
\* object, a close frame 4005 requires_data_object has been written; once it
\* has handled one whose object names no id other than empty strings, a
\* close frame 4006 invalid_payload has been written; in both cases no
\* INIT_STATE frame was written for it, the connection is out of the
\* registry and its socket is closed
C14_InitializeRejected ==
  \A c \in Conns :
    (lastFrame[c].Op = opInitialize /\ wsPc[c] \in {"read", "closed"})
      => /\ lastFrame[c].d.kind # "object" => Rejected(c, 4005, "requires_data_object")
         /\ (lastFrame[c].d.kind = "object" /\ NamedIds(lastFrame[c].d) = {})
              => Rejected(c, 4006, "invalid_payload")

\* an Initialize whose subscribe_to_ids holds one empty string was rejected
\* while user 1 is in the store
C14_Witness ==
  /\ wsPc["c1"] = "read"
  /\ lastFrame["c1"].Op = opInitialize
  /\ lastFrame["c1"].d.SubscribeToIDs = <<"">>
  /\ CloseFrames("c1", 4006, "invalid_payload") # {}
  /\ "1" \in DOMAIN data

\* the PRESENCE_UPDATE frames written to a connection since the broadcast
\* consumer took its last event
Updates(c) ==
  {i \in DOMAIN frames[c] : i > bcMark.at[c] /\ frames[c][i].T = "PRESENCE_UPDATE"}

\* C12: when the broadcast of a store event has ended, no connection got
\* more than one PRESENCE_UPDATE frame for it; a connection that was
\* registered with the user in its subscription set when the event was taken
\* and is still so, its socket open, got one, carrying the event's user; and
\* every frame went to a connection whose subscription set held the user
\* when the frame was written
C12_OneUpdatePerSubscriber ==
  (wsPc["bc"] = "idle" /\ bcMark.taken)
    => \A c \in Conns :
         /\ Cardinality(Updates(c)) <= 1
         /\ (/\ c \in DOMAIN bcMark.subs
             /\ wsEvt.UserID \in bcMark.subs[c]
             /\ c \in DOMAIN state
             /\ state[c].subs = bcMark.subs[c]
             /\ c \in sockOpen) => Updates(c) # {}
         /\ \A i \in Updates(c) :
               /\ frames[c][i].Op = opEvent
               /\ frames[c][i].UserID = wsEvt.UserID
               /\ frames[c][i].UserID \in frames[c][i].subs

\* a connection that was initialized and from which no Heartbeat ever came
Silent(c) == initMark[c].ids # {} /\ beats = 0 /\ lastHeartbeat[c] = regAt[c]

\* C15: the watcher drops a connection only when its miss counter is at
\* least 3 or its silence exceeds 60000 ms, and a connection that was
\* initialized and never sent a Heartbeat is dropped no earlier than
\* 3 * (30000 + 1000) ms after it was registered
C15_DropAfterThreeMisses ==
  \A c \in Conns :
    droppedAt[c] # NoTick
      => /\ \/ misses[c] >= maxHeartbeatMisses
            \/ droppedAt[c] - lastHeartbeat[c] > heartbeatTimeoutMs
         /\ Silent(c)
              => droppedAt[c] - regAt[c] >= 3 * (heartbeatIntervalMs + heartbeatJitter)

\* C16: as long as a registered connection never went longer than
\* 30000 + 1000 ms without a Heartbeat, the watcher has not dropped it and
\* its miss counter is 0 (every tick has reset it); and once the reader has
\* handled a Heartbeat frame of such a connection, an op-3 frame has been
\* written in answer
C16_HeartbeatKeepsAlive ==
  \A c \in Conns :
    maxSilence[c] <= heartbeatIntervalMs + heartbeatJitter
      => /\ droppedAt[c] = NoTick
         /\ misses[c] = 0
         /\ (lastFrame[c].Op = opHeartbeat /\ wsPc[c] = "read" /\ c \in sockOpen)
              => \E i \in DOMAIN frames[c] :
                   i > lastFrame[c].at /\ frames[c][i].Op = opHeartbeat

\* a client that let 31000 ms pass before its Heartbeat has been through two
\* ticks and got its acknowledgement
C16_Witness ==
  /\ "c1" \in DOMAIN state
  /\ maxSilence["c1"] = heartbeatIntervalMs + heartbeatJitter
  /\ tickAt["c1"] > 3 * heartbeatIntervalMs
  /\ \E i \in DOMAIN frames["c1"] : frames["c1"][i].Op = opHeartbeat

\* C18: at any time at most one thread is inside a WriteJSON, WriteControl
\* or Close call on the socket of a connection
C18_OneSocketUser == \A c \in Conns : Cardinality(onSock[c]) <= 1

(***************************************************************************)
(* Properties of the chunk import and of the identity merge.               *)
(***************************************************************************)
\* the user ids of the members and of the presences of a chunk
MemberIds(chunk) == {chunk.members[i].user.id : i \in DOMAIN chunk.members}
PresenceIds(chunk) == {chunk.presences[i].user.id : i \in DOMAIN chunk.presences}

\* N presences, none offline, for N distinct users, and N members for them
Matching(chunk) ==
  /\ chunk.presences # << >>
  /\ Cardinality(PresenceIds(chunk)) = Len(chunk.presences)
  /\ Len(chunk.members) = Len(chunk.presences)
  /\ MemberIds(chunk) = PresenceIds(chunk)
  /\ \A i \in DOMAIN chunk.presences : chunk.presences[i].status \notin {"", "offline"}

\* what a channel got since the task's event was taken
Since(t, w) == SubSeq(chans[w], taken[t].depth[w] + 1, Len(chans[w]))

\* C19: when the handler of a GUILD_MEMBERS_CHUNK with N presences, none
\* offline, for N distinct users and N members for the same users has
\* returned, and the store was empty when the chunk was taken, the store has
\* exactly these N users, and a channel that was subscribed then and had
\* room got exactly N events, one per user, each carrying the stored presence
C19_ChunkFillsStore ==
  \A t \in Tasks :
    (/\ pc[t] = "idle"
     /\ kind[t] = "GUILD_MEMBERS_CHUNK"
     /\ taken[t].on
     /\ taken[t].before = << >>
     /\ Matching(taken[t].payload))
      => /\ DOMAIN data = PresenceIds(taken[t].payload)
         /\ Cardinality(DOMAIN data) = Len(taken[t].payload.presences)
         /\ \A w \in DOMAIN taken[t].depth :
               taken[t].depth[w] + Len(taken[t].payload.presences) <= ChanCap
                 => /\ Len(Since(t, w)) = Len(taken[t].payload.presences)
                    /\ \A u \in DOMAIN data :
                         \E i \in DOMAIN Since(t, w) :
                           Since(t, w)[i] = PresenceEvent(u, data[u], FALSE, 0)

\* a chunk with two members and two presences was imported into the empty
\* store while client s1 was subscribed
C19_Witness ==
  /\ pc["g1"] = "idle"
  /\ kind["g1"] = "GUILD_MEMBERS_CHUNK"
  /\ taken["g1"].before = << >>
  /\ Len(taken["g1"].payload.presences) = 2
  /\ DOMAIN taken["g1"].depth # {}
  /\ Cardinality(DOMAIN data) = 2

\* the identity fields of a stored discord_user
IdentityFields == {"Username", "GlobalName", "DisplayName"}

\* C20: while no entry is removed, an identity field of a stored
\* discord_user that is non-empty is non-empty after every step
C20_IdentityKept ==
  [][\A u \in DOMAIN data \cap DOMAIN data' : \A f \in IdentityFields :
       data[u].DiscordUser[f] # "" => data'[u].DiscordUser[f] # ""]_vars

(***************************************************************************)
(* MergeDiscordUser on its own: a caller holds one DiscordUser and merges  *)
(* it with the empty one, on either side.                                  *)
(***************************************************************************)
\* a DiscordUser as discordUserFromRaw leaves it: the fields of the raw user
\* map (with the member's display name) and the avatar URL derived from them
UserFromFields(id, username, global_name, display_name, avatar, discriminator, bot, flags, guild) ==
  LET du == [ZeroUser EXCEPT !.ID = id, !.Username = username, !.GlobalName = global_name,
                             !.DisplayName = display_name, !.Avatar = avatar,
                             !.Discriminator = discriminator, !.Bot = bot,
                             !.PublicFlags = flags, !.PrimaryGuild = guild]
  IN [du EXCEPT !.AvatarURL = BuildAvatarURL(du.ID, du.Avatar, du.Discriminator)]

\* the users the store can hold: the zero value (a new entry of
\* UpdatePresenceQuiet) and what discordUserFromRaw builds
DiscordUsers ==
  {ZeroUser} \cup
  { UserFromFields("1", un, gn, dn, av, di, bot, fl, pg) :
      un \in {"", "x"}, gn \in {"", "X"}, dn \in {"", "Mr X"}, av \in {"", "abc", "a_1"},
      di \in {"", "7"}, bot \in BOOLEAN, fl \in {0, 64}, pg \in {NilAny, "guild"} }

InitIdentity ==
  /\ InitStore
  /\ limit = 0
  /\ initLimit = 0
  /\ fnName = ""
  /\ fnArgs \in DiscordUsers
  /\ fnRet = NoRet
  /\ InitAux

\* MergeDiscordUser(a, empty)
mergeWithEmpty ==
  /\ fnName' = "MergeDiscordUser(a, empty)"
  /\ fnRet' = MergeDiscordUser(fnArgs, ZeroUser)
  /\ UNCHANGED <<fnArgs, storeVars, taskVars, histVars, clientVars, wsVars, limitVars, panicVars, closeVars, faultVars>>

\* MergeDiscordUser(empty, b)
mergeIntoEmpty ==
  /\ fnName' = "MergeDiscordUser(empty, b)"
  /\ fnRet' = MergeDiscordUser(ZeroUser, fnArgs)
  /\ UNCHANGED <<fnArgs, storeVars, taskVars, histVars, clientVars, wsVars, limitVars, panicVars, closeVars, faultVars>>

NextIdentity == mergeWithEmpty \/ mergeIntoEmpty

SpecIdentity == InitIdentity /\ [][NextIdentity]_vars

\* the fields of a DiscordUser other than display_name and avatar_url
PlainFields ==
  {"ID", "Username", "GlobalName", "Avatar", "Discriminator", "AvatarDecorationData",
   "PrimaryGuild", "Collectibles", "DisplayNameStyles", "Bot", "PublicFlags"}

MergedWithEmpty == fnName \in {"MergeDiscordUser(a, empty)", "MergeDiscordUser(empty, b)"}

\* C21 as stated: merging with the empty user, on either side, returns the
\* other argument, equal in all fields including display_name and avatar_url
C21_EmptyIsIdentity == MergedWithEmpty => fnRet = fnArgs

\* C21 as amended: merging with the empty user, on either side, returns the
\* other argument in every field except display_name and avatar_url; the
\* display_name is the argument's when that is not empty, else its global_name,
\* else its username; the avatar_url is the one derived from id, avatar and
\* discriminator of the argument (the argument's own when that was derived so)
C21_EmptyIsIdentityButDerived ==
  MergedWithEmpty =>
    /\ \A f \in PlainFields : fnRet[f] = fnArgs[f]
    /\ fnRet.DisplayName =
         (IF fnArgs.DisplayName # "" THEN fnArgs.DisplayName
          ELSE IF fnArgs.GlobalName # "" THEN fnArgs.GlobalName ELSE fnArgs.Username)
    /\ fnRet.AvatarURL = BuildAvatarURL(fnArgs.ID, fnArgs.Avatar, fnArgs.Discriminator)

\* a user with a username, a bot flag and an opaque object came back from a
\* merge into the empty user
C21_Witness ==
  /\ fnName = "MergeDiscordUser(empty, b)"
  /\ fnArgs.Username = "x" /\ fnArgs.DisplayName = "" /\ fnArgs.Bot /\ fnArgs.PrimaryGuild # NilAny
  /\ fnRet.Username = "x"

(***************************************************************************)
(* BuildPresenceFromRaw on its own: a caller builds the presence of one    *)
(* PRESENCE_UPDATE payload, as handleRawPresence does, and the store's     *)
(* normalizePresence then adds the public projection.                      *)
(***************************************************************************)
\* entries of a raw activities list: a game, Spotify with a sync_id, with a
\* track_id only, with neither, an activity known as Spotify by its name
\* only, and an entry that is not an object
BuildActivities ==
  {GameActivity, SpotifyActivity, RawActivity(2, "Spotify", "", "t1"),
   RawActivity(2, "Spotify", "", ""), RawActivity(0, "Spotify", "", ""), NotAnObject}

RECURSIVE ListsOf(_, _)
\* the lists of at most n elements of S
ListsOf(S, n) ==
  IF n = 0 THEN {<< >>}
  ELSE LET shorter == ListsOf(S, n - 1)
       IN shorter \cup { Append(l, x) : l \in shorter, x \in S }

BuildClientStatuses ==
  {NilClientStatus} \cup
  { ClientStatus(d, m, w, e) : d \in {"", "online"}, m \in {"", "idle"},
                               w \in {"", "online"}, e \in {"", "dnd"} }

BuildPayloads ==
  { [PresenceUpdate(RawUser("1", "x", ""), st, acts) EXCEPT !.client_status = cs] :
      st \in {"online", "offline"}, acts \in ListsOf(BuildActivities, MaxActivities),
      cs \in BuildClientStatuses }

InitBuild ==
  /\ InitStore
  /\ limit = 0
  /\ initLimit = 0
  /\ fnName = ""
  /\ fnArgs \in BuildPayloads
  /\ fnRet = NoRet
  /\ InitAux

\* handleRawPresence, lines 120-121: the call of BuildPresenceFromRaw
callBuildPresenceFromRaw ==
  /\ fnName = ""
  /\ LET r == BuildPresenceFromRaw(fnArgs, fnArgs.user, fnArgs.member)
     IN fnRet' = [presence |-> r[1], userID |-> r[2], ok |-> r[3]]
  /\ fnName' = "BuildPresenceFromRaw"
  /\ UNCHANGED <<fnArgs, storeVars, taskVars, histVars, clientVars, wsVars, limitVars, panicVars, closeVars, faultVars>>

\* SetPresence, line 218: the presence that was built gets its projection
callNormalizePresence ==
  /\ fnName = "BuildPresenceFromRaw"
  /\ fnRet.ok
  /\ fnRet' = [fnRet EXCEPT !.presence = normalizePresence(@)]
  /\ fnName' = "normalizePresence"
  /\ UNCHANGED <<fnArgs, storeVars, taskVars, histVars, clientVars, wsVars, limitVars, panicVars, closeVars, faultVars>>

NextBuild == callBuildPresenceFromRaw \/ callNormalizePresence

SpecBuild == InitBuild /\ [][NextBuild]_vars

Built == fnName \in {"BuildPresenceFromRaw", "normalizePresence"} /\ fnRet.ok

\* C22 as stated: a presence built by BuildPresenceFromRaw has
\* listening_to_spotify true if and only if its spotify object is not null
C22_ListeningIffSpotify ==
  Built => (fnRet.presence.ListeningToSpotify <=> ~fnRet.presence.Spotify.isNil)

\* the raw list has an object of type 2 or of name "Spotify"
SpotifyListed(raw) ==
  \E i \in 1 .. Len(raw) : raw[i].isObject /\ (raw[i].type = 2 \/ raw[i].name = "Spotify")

\* C22 as amended: a presence built by BuildPresenceFromRaw has
\* listening_to_spotify true if and only if the raw activities hold a Spotify
\* activity (type 2 or name "Spotify"); the spotify object is non-null only
\* then, and it is null when no Spotify activity carries a sync_id or track_id
C22_ListeningIffSpotifyActivity ==
  Built =>
    /\ fnRet.presence.ListeningToSpotify <=> SpotifyListed(fnArgs.activities)
    /\ ~fnRet.presence.Spotify.isNil => fnRet.presence.ListeningToSpotify
    /\ ~fnRet.presence.Spotify.isNil <=>
         \E i \in 1 .. Len(fnArgs.activities) :
            /\ SpotifyListed(<<fnArgs.activities[i]>>)
            /\ (fnArgs.activities[i].sync_id # "" \/ fnArgs.activities[i].track_id # "")

\* a payload whose only Spotify activity has neither sync_id nor track_id was
\* built: the flag is set and there is no spotify object
C22_Witness ==
  /\ fnName = "BuildPresenceFromRaw" /\ fnRet.ok
  /\ fnArgs.activities = <<GameActivity, RawActivity(2, "Spotify", "", "")>>
  /\ fnRet.presence.ListeningToSpotify
  /\ fnRet.presence.Spotify.isNil

\* the platforms in canonical order
Platforms == <<"desktop", "mobile", "web", "embedded">>

RECURSIVE ActivePlatforms(_, _)
\* the platforms from the i-th on whose client_status value is a non-empty string
ActivePlatforms(cs, i) ==
  IF i > Len(Platforms) THEN << >>
  ELSE (IF ~cs.isNil /\ cs[Platforms[i]] # "" THEN <<Platforms[i]>> ELSE << >>)
         \o ActivePlatforms(cs, i + 1)

\* C30: active_clients of a built presence lists the platforms with a
\* non-empty client_status value in the order desktop, mobile, web, embedded;
\* primary_active_client is its first element, or empty; the public
\* projection's clients.active and clients.primary carry the same values
C30_ActiveClients ==
  LET want == ActivePlatforms(fnArgs.client_status, 1)
      p == fnRet.presence
  IN /\ Built =>
          /\ p.ActiveClients.items = want
          /\ p.PrimaryActiveClient = (IF want = << >> THEN "" ELSE want[1])
     /\ (fnName = "normalizePresence") =>
          /\ p.Public.Clients.Active.items = want
          /\ p.Public.Clients.Primary = (IF want = << >> THEN "" ELSE want[1])

(***************************************************************************)
(* SpecProjection: one gateway task stores presences whose activities mix  *)
(* Spotify and other entries, through SetPresence (PRESENCE_UPDATE),       *)
(* SetPresenceQuiet (chunk) and UpdatePresenceQuiet (member events).       *)
(***************************************************************************)
CustomActivity == RawActivity(4, "Custom", "", "")

ProjPresencePayloads ==
  { PresenceUpdate(RawUser("1", "x", ""), "online", acts) :
      acts \in { <<GameActivity, SpotifyActivity, CustomActivity>>,
                 <<RawActivity(0, "Spotify", "", ""), CustomActivity, NotAnObject, GameActivity>>,
                 <<RawActivity(2, "Music", "", "t1")>> } }

ProjMemberPayloads == { <<RawUser("1", "", "X"), RawMember("Mr X", NoRawUser)>> }

ProjChunkPayloads ==
  { Chunk(<<ChunkMember("2")>>,
          <<PresenceUpdate(RawUser("2", "", ""), "idle",
                           <<CustomActivity, RawActivity(2, "Spotify", "", ""), GameActivity>>)>>) }

InitProjection == InitStore /\ InitOther /\ limit = MaxProjEvents /\ initLimit = 0

NextProjection ==
  \/ \E payload \in ProjPresencePayloads : handleRawPresence("g1", payload)
  \/ handleRawPresenceSet("g1")
  \/ \E m \in ProjMemberPayloads : MergeRawUser("g1", m[1], m[2])
  \/ \E chunk \in ProjChunkPayloads : TakeChunk("g1", chunk)
  \/ MergeChunkRawMembers("g1")
  \/ UpsertChunkPresences("g1")
  \/ BroadcastPresence("g1")
  \/ broadcastLock("g1")
  \/ \E w \in WatcherIds : broadcastSend("g1", w)
  \/ broadcastUnlock("g1")
  \/ Subscribe("s1")

SpecProjection == InitProjection /\ [][NextProjection]_vars

\* C23: the public activities of every stored presence hold no activity of
\* type 2 or of name "Spotify", and are the other activities of the presence,
\* unchanged and in their order
C23_PublicActivities ==
  \A u \in DOMAIN data :
    LET acts == data[u].Activities.items
        pub == data[u].Public.Activities.items
    IN /\ \A i \in 1 .. Len(pub) : pub[i].type # 2 /\ pub[i].name # "Spotify"
       /\ pub = SelectSeq(acts, LAMBDA a : a.type # 2 /\ a.name # "Spotify")

\* a stored presence with a Spotify activity known by its name only, between
\* two others that the projection keeps in order
C23_Witness ==
  /\ "1" \in DOMAIN data
  /\ data["1"].Activities.items = <<RawActivity(0, "Spotify", "", ""), CustomActivity, GameActivity>>
  /\ data["1"].Public.Activities.items = <<CustomActivity, GameActivity>>
  /\ data["1"].DiscordUser.DisplayName = "Mr X"

(***************************************************************************)
(* SpecSnapshot: GET /v1/users/{user_id} while one gateway task writes the *)
(* store.  A request is one call of SnapshotHandler.ServeHTTP; fnArgs      *)
(* keeps the id asked for and, as history, the map the handler read.       *)
(***************************************************************************)
\* the characters of the ids of the model, as `range userID` yields them
Runes(str) ==
  CASE str = "" -> << >>
    [] str = "1" -> <<"1">>
    [] str = "2" -> <<"2">>
    [] str = "1a" -> <<"1", "a">>
    [] str = "abc" -> <<"a", "b", "c">>

\* ch < '0' || ch > '9'
NotADigit(ch) == ch \notin {"0", "1", "2", "3", "4", "5", "6", "7", "8", "9"}

\* utils.PublicPresenceFromStore
PublicPresenceFromStore(p) ==
  [status |-> p.DiscordStatus,
   clients |-> [active |-> p.ActiveClients, primary |-> p.PrimaryActiveClient],
   activities |-> p.Activities,
   spotify |-> p.Spotify,
   discord_user |-> p.DiscordUser,
   listening_to_spotify |-> p.ListeningToSpotify]

NoBody == PublicPresenceFromStore(ZeroPresence)

\* the handler's call utils.ErrorResponse(code, message, status, false, nil)
\* and WriteHeader(status): the status and the code it answers with
ErrorResponse(code, status) == [status |-> status, code |-> code, body |-> NoBody]

\* the handler's call utils.SuccessResponse(public) and WriteHeader(200): the
\* status and the payload it answers with
SuccessResponse(public) == [status |-> 200, code |-> "", body |-> public]

\* the ids a request can carry
RequestIds == {"", "1", "2", "1a", "abc"}

\* the handler without the digit check
SnapshotServeHTTPAnyId(userID) ==
  /\ fnName' = "ServeHTTP"
  /\ fnArgs' = [userID |-> userID, data |-> data]
  /\ fnRet' =
       IF userID = "" THEN ErrorResponse("INVALID_USER_ID", 400)
       ELSE LET r == GetPresence(userID)
            IN IF ~r[2] THEN ErrorResponse("USER_NOT_FOUND", 404)
               ELSE SuccessResponse(PublicPresenceFromStore(r[1]))
  /\ UNCHANGED <<storeVars, taskVars, histVars, clientVars, wsVars, limitVars, panicVars, closeVars, faultVars>>

\* SnapshotHandler.ServeHTTP
SnapshotServeHTTP(userID) ==
  /\ fnName' = "ServeHTTP"
  /\ fnArgs' = [userID |-> userID, data |-> data]
  /\ fnRet' =
       IF userID = "" THEN ErrorResponse("INVALID_USER_ID", 400)
       ELSE IF \E i \in 1 .. Len(Runes(userID)) : NotADigit(Runes(userID)[i])
         THEN ErrorResponse("INVALID_USER_ID", 400)
       ELSE LET r == GetPresence(userID)
            IN IF ~r[2] THEN ErrorResponse("USER_NOT_FOUND", 404)
               ELSE SuccessResponse(PublicPresenceFromStore(r[1]))
  /\ UNCHANGED <<storeVars, taskVars, histVars, clientVars, wsVars, limitVars, panicVars, closeVars, faultVars>>

SnapPresencePayloads ==
  { PresenceUpdate(RawUser("1", "x", ""), "online", <<SpotifyActivity, GameActivity>>),
    PresenceUpdate(RawUser("1", "", ""), "offline", << >>),
    PresenceUpdate(RawUser("1a", "y", ""), "idle", << >>) }

InitSnapshot == InitStore /\ InitOther /\ limit = MaxSnapEvents /\ initLimit = 0

NextSnapshot ==
  \/ \E payload \in SnapPresencePayloads : handleRawPresence("g1", payload)
  \/ handleRawPresenceSet("g1")
  \/ broadcastLock("g1")
  \/ broadcastUnlock("g1")
  \/ \E userID \in RequestIds : SnapshotServeHTTP(userID)

SpecSnapshot == InitSnapshot /\ [][NextSnapshot]_vars

Served == fnName = "ServeHTTP"

AllDigits(str) == str \in {"1", "2"}

\* the answer to a request is 400 INVALID_USER_ID for an empty id or one with
\* a non-digit, whatever the store holds; 404 USER_NOT_FOUND for an id of
\* digits without entry; 200 otherwise
AnswerCodes ==
  Served =>
    LET id == fnArgs.userID
        seen == fnArgs.data
    IN /\ ~AllDigits(id) => fnRet.status = 400 /\ fnRet.code = "INVALID_USER_ID"
       /\ AllDigits(id) /\ id \notin DOMAIN seen =>
            fnRet.status = 404 /\ fnRet.code = "USER_NOT_FOUND"
       /\ AllDigits(id) /\ id \in DOMAIN seen => fnRet.status = 200

\* with status 200 comes what PublicPresenceFromStore makes of the entry
\* the handler read for that id
AnswerBody ==
  Served /\ fnRet.status = 200 =>
    /\ fnArgs.userID \in DOMAIN fnArgs.data
    /\ fnRet.code = ""
    /\ fnRet.body = PublicPresenceFromStore(fnArgs.data[fnArgs.userID])

requestsPerSecond == 10
burst == requestsPerSecond
\* the time one token takes, in milliseconds
TickMs == 1000 \div requestsPerSecond

\* rate.Limit.tokensFromDuration and durationFromTokens, in milliseconds
tokensFromDuration(d) == (d * requestsPerSecond) \div 1000
durationFromTokens(tokens) == (tokens * 1000) \div requestsPerSecond

\* rate.NewLimiter(rate.Limit(requestsPerSecond), burst): a full bucket
NewLimiter(t) == [tokens |-> burst, last |-> t, lastEvent |-> t]

\* Limiter.advance: the tokens the bucket holds at time t
advance(lim, t) ==
  LET last == IF t < lim.last THEN t ELSE lim.last
      tokens == lim.tokens + tokensFromDuration(t - last)
  IN IF tokens > burst THEN burst ELSE tokens

\* Limiter.Reserve at time t: <<the reservation, the limiter afterwards>>
Reserve(lim, t) ==
  LET tokens == advance(lim, t) - 1
      waitDuration == IF tokens < 0 THEN durationFromTokens(-tokens) ELSE 0
      ok == 1 <= burst
  IN IF ok
       THEN << [ok |-> TRUE, tokens |-> 1, timeToAct |-> t + waitDuration],
               [tokens |-> tokens, last |-> t, lastEvent |-> t + waitDuration] >>
       ELSE << [ok |-> FALSE, tokens |-> 0, timeToAct |-> 0], lim >>

\* Reservation.Delay at time t
Delay(res, t) == IF res.timeToAct - t < 0 THEN 0 ELSE res.timeToAct - t

\* Reservation.Cancel at time t: the limiter afterwards.  Tokens reserved
\* after this reservation was made are not given back.
Cancel(lim, res, t) ==
  IF ~res.ok \/ res.tokens = 0 \/ res.timeToAct < t THEN lim
  ELSE LET restoreTokens == res.tokens - tokensFromDuration(lim.lastEvent - res.timeToAct)
       IN IF restoreTokens <= 0 THEN lim
          ELSE LET tokens == advance(lim, t) + restoreTokens
                   prevEvent == res.timeToAct + durationFromTokens(-res.tokens)
               IN [tokens |-> IF tokens > burst THEN burst ELSE tokens,
                   last |-> t,
                   lastEvent |-> IF res.timeToAct = lim.lastEvent /\ prevEvent >= t
                                   THEN prevEvent ELSE lim.lastEvent]

\* writeRateLimited: max(ceil(delay in seconds), 1)
retryAfterSeconds(delay) ==
  LET ceil == (delay + 999) \div 1000
  IN IF ceil > 1 THEN ceil ELSE 1

limiterRest == <<storeVars, taskVars, histVars, clientVars, wsVars, callVars, panicVars, closeVars, faultVars>>

\* the handler up to mu.Unlock: the limiter of the ip, made on first sight
limiterLookup(r, ip) ==
  /\ req[r].pc = "idle"
  /\ requests < MaxRequests
  /\ requests' = requests + 1
  /\ req' = [req EXCEPT ![r] = [IdleRequest EXCEPT !.pc = "reserve", !.ip = ip]]
  /\ IF ip \in DOMAIN limClients
       THEN UNCHANGED <<limClients, ideal, passedNow>>
       ELSE /\ limClients' = limClients @@ (ip :> NewLimiter(now))
            /\ ideal' = ideal @@ (ip :> burst)
            /\ passedNow' = passedNow @@ (ip :> 0)
  /\ UNCHANGED limiterRest

\* res := c.limiter.Reserve()
limiterReserve(r) ==
  /\ req[r].pc = "reserve"
  /\ LET out2 == Reserve(limClients[req[r].ip], now)
     IN /\ limClients' = [limClients EXCEPT ![req[r].ip] = out2[2]]
        /\ req' = [req EXCEPT ![r].pc = "reserved", ![r].res = out2[1]]
  /\ UNCHANGED <<requests, ideal, passedNow, limiterRest>>

\* the rest of the handler when the request is refused: !res.OK(), or a
\* delay, then res.Cancel() and writeRateLimited
limiterReject(r) ==
  /\ req[r].pc = "reserved"
  /\ LET res == req[r].res
         ip == req[r].ip
     IN /\ ~res.ok \/ Delay(res, now) > 0
        /\ limClients' = IF res.ok
                           THEN [limClients EXCEPT ![ip] = Cancel(limClients[ip], res, now)]
                           ELSE limClients
        /\ req' = [req EXCEPT ![r].pc = "idle", ![r].status = 429,
                               ![r].retryAfter = retryAfterSeconds(IF res.ok THEN Delay(res, now) ELSE 1000)]
  /\ UNCHANGED <<requests, ideal, passedNow, limiterRest>>

\* the rest of the handler when the token is there: next.ServeHTTP
limiterPass(r) ==
  /\ req[r].pc = "reserved"
  /\ req[r].res.ok
  /\ Delay(req[r].res, now) = 0
  /\ req' = [req EXCEPT ![r].pc = "idle", ![r].status = 200, ![r].retryAfter = 0]
  /\ ideal' = [ideal EXCEPT ![req[r].ip] = @ - 1]
  /\ passedNow' = [passedNow EXCEPT ![req[r].ip] = @ + 1]
  /\ UNCHANGED <<limClients, requests, limiterRest>>

\* 100 ms pass while no request is inside the middleware
limiterTick ==
  /\ \A r \in Requests : req[r].pc = "idle"
  /\ advances < MaxTicks
  /\ advances' = advances + 1
  /\ now' = now + TickMs
  /\ ideal' = [ip \in DOMAIN ideal |-> IF ideal[ip] < burst THEN ideal[ip] + 1 ELSE burst]
  /\ passedNow' = [ip \in DOMAIN passedNow |-> 0]
  /\ UNCHANGED <<limClients, req, requests, storeVars, taskVars, histVars, clientVars, callVars,
                 state, sockOpen, seq, frames, wsPc, wsEvt, targets, initTodo, out, inits,
                 initLimit, lastHeartbeat, misses, tickAt, beats, regAt, droppedAt, maxSilence,
                 wsHist, muVars, panicVars, closeVars, faultVars>>

InitLimiterSpec == InitStore /\ InitOther /\ limit = 0 /\ initLimit = 0

NextLimiter ==
  \/ \E r \in Requests, ip \in IPs : limiterLookup(r, ip)
  \/ \E r \in Requests : limiterReserve(r)
  \/ \E r \in Requests : limiterReject(r)
  \/ \E r \in Requests : limiterPass(r)
  \/ limiterTick

SpecLimiter == InitLimiterSpec /\ [][NextLimiter]_vars

\* at most burst requests of one address pass without the clock moving
BurstBounded == \A ip \in DOMAIN passedNow : passedNow[ip] <= burst

\* a refusal is a 429 with Retry-After of at least one second
Refusals ==
  \A r \in Requests : req[r].status # 200 /\ req[r].status # 0 =>
    req[r].status = 429 /\ req[r].retryAfter >= 1

\* no request of the address is between its Reserve and its answer
Settled(ip) == \A r \in Requests : req[r].ip = ip => req[r].pc = "idle"

\* the tokens the limiter of the address holds now
TokensNow(ip) == advance(limClients[ip], now)

\* refused requests took nothing: the bucket holds what the passed ones left
RefusalsFree == \A ip \in DOMAIN limClients : Settled(ip) => TokensNow(ip) = ideal[ip]

\* C25: one bucket of 10 tokens per address refilled at 10 per second: at
\* most 10 requests pass in one instant, a further one is refused with 429
\* and Retry-After >= 1 s, and a refused request consumes no token
C25_TokenBucket == BurstBounded /\ Refusals /\ RefusalsFree

(***************************************************************************)
(* SpecPanic: panics in the background tasks.  The store has replicators   *)
(* whose Publish returns, fails or panics; a gateway task writes, the      *)
(* socket server consumes and one connection subscribes.  A panic can      *)
(* strike the broadcast consumer while it handles an event, a running      *)
(* heartbeat watcher, and the reader of a connection.  What becomes of it  *)
(* depends on how the task was started.                                    *)
(***************************************************************************)
\* how a Publish ends: it returns nil, returns an error, or panics
PublishKinds == {"ok", "fails", "panics"}

\* the replicators AddReplicator has registered before the first event
ReplicatorLists == { <<"panics", "ok">>, <<"ok", "panics">>, <<"fails", "ok">>, <<"ok">> }

\* GoSafe(fn): a panic of fn is recovered and logged; the task is over
GoSafe(task) ==
  /\ recovered' = recovered \cup {task}
  /\ UNCHANGED alive

\* a plain go statement: a panic of the task ends the process
GoPlain(task) ==
  /\ alive' = FALSE
  /\ UNCHANGED recovered

panicRest == <<callVars, limitVars, replicators, closeVars, faultVars>>

\* the task GoSafe started in broadcast: replicator.Publish(evt), result dropped
Publish(g) ==
  /\ alive
  /\ g \in goroutines
  /\ goroutines' = goroutines \ {g}
  /\ published' = published \cup {g}
  /\ IF replicators[g.rep] = "panics"
       THEN GoSafe("publish")
       ELSE UNCHANGED <<alive, recovered>>
  /\ UNCHANGED <<storeVars, taskVars, histVars, clientVars, wsVars, panicRest>>

\* ws.broadcast(evt) panics in the consumer GoSafe started in NewServer:
\* recovered outside the range loop, so the consumer returns
panicInConsumer ==
  /\ alive
  /\ wsPc["bc"] = "broadcast"
  /\ GoSafe("bc")
  /\ wsPc' = [wsPc EXCEPT !["bc"] = "ended"]
  /\ UNCHANGED <<state, sockOpen, seq, frames, wsEvt, targets, initTodo, out, inits, initLimit>>
  /\ UNCHANGED <<hbVars, wsHist, muVars>>
  /\ UNCHANGED <<storeVars, taskVars, histVars, clientVars, panicRest, goroutines, published>>

\* watchHeartbeats panics: ServeHTTP started it with a plain go statement
panicInWatcher(c) ==
  /\ alive
  /\ tickAt[c] # NoTick
  /\ GoPlain("watcher")
  /\ UNCHANGED <<storeVars, taskVars, histVars, clientVars, wsVars, panicRest, goroutines, published>>

\* handleConn panics: it runs in the task of the HTTP request, whose server
\* recovers the panic of a handler; the deferred cleanupConn runs first
panicInReader(c) ==
  /\ alive
  /\ wsPc[c] = "read"
  /\ cleanupConn(c)
  /\ wsPc' = [wsPc EXCEPT ![c] = "closed"]
  /\ recovered' = recovered \cup {"reader"}
  /\ UNCHANGED <<seq, frames, wsEvt, targets, initTodo, out, inits, initLimit>>
  /\ UNCHANGED <<hbVars, wsHist, muVars>>
  /\ UNCHANGED <<storeVars, taskVars, histVars, clientVars, panicRest, goroutines, published, alive>>

\* the store and the socket server after NewServer, of a process that will
\* handle so many gateway events
InitPanicServer(n) ==
  /\ data = << >>
  /\ watchers = {ServerWatcher}
  /\ chans = [w \in WatcherIds |-> << >>]
  /\ closed = [w \in WatcherIds |-> 0]
  /\ nextWatcherID = 1
  /\ rlock = {}
  /\ pc = [t \in Tasks |-> "idle"]
  /\ kind = [t \in Tasks |-> "none"]
  /\ taken = [t \in Tasks |-> NoTaken]
  /\ op = [t \in Tasks |-> "none"]
  /\ uid = [t \in Tasks |-> ""]
  /\ pres = [t \in Tasks |-> ZeroPresence]
  /\ evt = [t \in Tasks |-> NoEvent]
  /\ todo = [t \in Tasks |-> {}]
  /\ work = [t \in Tasks |-> NoChunk]
  /\ lookup = [t \in Tasks |-> << >>]
  /\ sub = [c \in Clients |-> NoWatcher]
  /\ events = 0
  /\ limit = n
  /\ initLimit = MaxPanicInits
  /\ commits = 0
  /\ lastWrite = [u \in Users |-> "none"]
  /\ had = [t \in Tasks |-> FALSE]
  /\ fanout = [t \in Tasks |-> {}]
  /\ delivered = [t \in Tasks |-> << >>]
  /\ cancelCalls = [c \in Clients |-> 0]
  /\ InitServer
  /\ InitCall
  /\ InitLimiter
  /\ InitNoClose
  /\ InitNoFault
  /\ goroutines = {}
  /\ published = {}
  /\ alive = TRUE
  /\ recovered = {}

InitPanic == InitPanicServer(MaxPanicEvents) /\ replicators \in ReplicatorLists

NextPanic ==
  \/ alive /\ \E payload \in SocketPresencePayloads : handleRawPresence("g1", payload)
  \/ alive /\ handleRawPresenceSet("g1")
  \/ alive /\ broadcastLock("g1")
  \/ alive /\ \E w \in WatcherIds : broadcastSend("g1", w)
  \/ alive /\ broadcastUnlock("g1")
  \/ \E g \in goroutines : Publish(g)
  \/ alive /\ wsServeHTTP("c1")
  \/ alive /\ goWatchHeartbeats("c1")
  \/ alive /\ handleInit("c1", InitData("object", "1", << >>))
  \/ alive /\ handleInitState("c1")
  \/ alive /\ \E th \in {"bc", "c1"} : sendEvent(th)
  \/ alive /\ \E th \in {"bc", "c1"} : writeJSON(th)
  \/ alive /\ \E th \in {"bc", "c1"} : connWriteJSON(th)
  \/ alive /\ wsBroadcast
  \/ alive /\ wsBroadcastSend
  \/ panicInConsumer
  \/ panicInWatcher("c1")
  \/ panicInReader("c1")

SpecPanic == InitPanic /\ [][NextPanic]_vars

\* SpecConsumer: the same process without replicators, as cmd/main.go starts it
InitConsumer == InitPanicServer(MaxConsumerEvents) /\ replicators = << >>

NextConsumer ==
  \/ alive /\ \E payload \in SocketPresencePayloads : handleRawPresence("g1", payload)
  \/ alive /\ handleRawPresenceSet("g1")
  \/ alive /\ broadcastLock("g1")
  \/ alive /\ \E w \in WatcherIds : broadcastSend("g1", w)
  \/ alive /\ broadcastUnlock("g1")
  \/ alive /\ wsServeHTTP("c1")
  \/ alive /\ goWatchHeartbeats("c1")
  \/ alive /\ handleInit("c1", InitData("object", "1", << >>))
  \/ alive /\ handleInitState("c1")
  \/ alive /\ \E th \in {"bc", "c1"} : sendEvent(th)
  \/ alive /\ \E th \in {"bc", "c1"} : writeJSON(th)
  \/ alive /\ \E th \in {"bc", "c1"} : connWriteJSON(th)
  \/ alive /\ wsBroadcast
  \/ alive /\ wsBroadcastSend
  \/ panicInConsumer

SpecConsumer == InitConsumer /\ [][NextConsumer]_vars

\* the fan-out of the commit v is going on
Broadcasting(v) == \E t \in Tasks : pc[t] \in {"broadcast", "send"} /\ evt[t].ver = v

\* every replicator has been given every event whose fan-out is over, whatever
\* the other replicators did
ReplicatorsCalled ==
  \A v \in 1 .. commits : ~Broadcasting(v) =>
    \A i \in 1 .. Len(replicators) : [rep |-> i, ver |-> v] \in goroutines \cup published

\* the event of a finished write was offered to the socket server's channel
FanoutDone ==
  \A t \in Tasks : pc[t] = "idle" /\ evt[t].ver > 0 =>
    delivered[t][ServerWatcher].sent = <<evt[t]>>

\* C26: the broadcast consumer, every replicator Publish, the heartbeat
\* watcher and the socket reader run under the panic recovery, so no panic
\* ends the process; a replicator that panics or fails keeps neither the
\* write nor the fan-out nor the other replicators from happening
C26_PanicsContained == alive /\ ReplicatorsCalled /\ FanoutDone

\* C27: a panic of the broadcast consumer is recovered and the consumer goes
\* on: an event in the server's channel finds the consumer running
C27_ConsumerContinues ==
  "bc" \in recovered /\ chans[ServerWatcher] # << >> => wsPc["bc"] # "ended"

(***************************************************************************)
(* SpecAdapter: the gateway handlers on payloads that lack what they       *)
(* expect.                                                                 *)
(***************************************************************************)
GoodPresence(u) == PresenceUpdate(RawUser(u, "x", ""), "online", << >>)

AdapterPresencePayloads ==
  { PresenceUpdate(NoRawUser, "online", << >>),
    PresenceUpdate(RawUser("", "x", ""), "online", << >>),
    PresenceUpdate(RawUser("1", "x", ""), "", << >>),
    GoodPresence("1") }

AdapterRemovePayloads == { [user |-> NoRawUser], [user |-> RawUser("", "", "")] }

AdapterChunkPayloads ==
  { Chunk(<<ChunkMember("2")>>, <<NonObjectEntry, GoodPresence("2")>>),
    Chunk(<<NoRawMember, ChunkMember("2")>>, <<PresenceUpdate(NoRawUser, "online", << >>), GoodPresence("2")>>) }

InitAdapter == InitMerge

NextAdapter ==
  \/ alive /\ \E payload \in AdapterPresencePayloads : handleRawPresence("g1", payload)
  \/ alive /\ handleRawPresenceSet("g1")
  \/ alive /\ \E payload \in AdapterRemovePayloads : handleRawMemberRemove("g1", payload)
  \/ alive /\ \E chunk \in AdapterChunkPayloads : TakeChunk("g1", chunk)
  \/ alive /\ MergeChunkRawMembers("g1")
  \/ alive /\ UpsertChunkPresences("g1")
  \/ alive /\ BroadcastPresence("g1")
  \/ alive /\ broadcastLock("g1")
  \/ alive /\ \E w \in WatcherIds : broadcastSend("g1", w)
  \/ alive /\ broadcastUnlock("g1")
  \/ alive /\ Subscribe("s1")

SpecAdapter == InitAdapter /\ [][NextAdapter]_vars

\* no handler has panicked
NoPanic == alive /\ \A t \in Tasks : pc[t] # "panic"

\* the store holds normalized entries under non-empty ids
StoreConsistent ==
  \A u \in DOMAIN data : u # "" /\ data[u] = normalizePresence(data[u])

\* the entries after a dropped one were handled: a chunk whose second entry
\* is the presence of user 2 leaves user 2 in the store
RestHandled ==
  \A t \in Tasks :
    pc[t] = "idle" /\ kind[t] = "GUILD_MEMBERS_CHUNK" => "2" \in DOMAIN data

\* C28: a payload without user object, user id or status, a chunk entry
\* without user object and a non-object entry never make a handler panic;
\* the entry is dropped, the store stays consistent and the rest is handled
C28_MalformedDropped == NoPanic /\ StoreConsistent /\ RestHandled

(***************************************************************************)
(* SpecClose: one gateway event, one connected client and Server.Close,    *)
(* where a step that stays possible is eventually taken                    *)
(***************************************************************************)
\* the server with one connection: c1 was registered by ServeHTTP, got Hello,
\* its heartbeat watcher runs, and its Initialize frame subscribed it to
\* user 1, of whom the store had nothing to send
InitConnectedAt(n, k, tm) ==
  /\ data = << >>
  /\ watchers = {ServerWatcher}
  /\ chans = [w \in WatcherIds |-> << >>]
  /\ closed = [w \in WatcherIds |-> 0]
  /\ nextWatcherID = 1
  /\ rlock = {}
  /\ pc = [t \in Tasks |-> "idle"]
  /\ kind = [t \in Tasks |-> "none"]
  /\ taken = [t \in Tasks |-> NoTaken]
  /\ op = [t \in Tasks |-> "none"]
  /\ uid = [t \in Tasks |-> ""]
  /\ pres = [t \in Tasks |-> ZeroPresence]
  /\ evt = [t \in Tasks |-> NoEvent]
  /\ todo = [t \in Tasks |-> {}]
  /\ work = [t \in Tasks |-> NoChunk]
  /\ lookup = [t \in Tasks |-> << >>]
  /\ sub = [c \in Clients |-> NoWatcher]
  /\ events = 0
  /\ limit = n
  /\ commits = 0
  /\ lastWrite = [u \in Users |-> "none"]
  /\ had = [t \in Tasks |-> FALSE]
  /\ fanout = [t \in Tasks |-> {}]
  /\ delivered = [t \in Tasks |-> << >>]
  /\ cancelCalls = [c \in Clients |-> 0]
  /\ state = Put(<< >>, "c1", [subs |-> {"1"}])
  /\ sockOpen = {"c1"}
  /\ seq = 0
  /\ frames = [c \in Conns |->
                 IF c = "c1" THEN <<wsMessage(opHello, "", "", NoData, FALSE)>> ELSE << >>]
  /\ wsPc = [th \in Threads |-> IF th = "bc" THEN "idle" ELSE IF th = "c1" THEN "read" ELSE "new"]
  /\ wsEvt = NoEvent
  /\ targets = {}
  /\ initTodo = [c \in Conns |-> {}]
  /\ out = [th \in Threads |->
              IF th = "c1"
                THEN [conn |-> "c1", msg |-> wsMessage(opHello, "", "", NoData, FALSE)]
                ELSE NoOut]
  /\ inits = 1
  /\ initLimit = inits + k
  /\ now = tm
  /\ lastHeartbeat = [c \in Conns |-> 0]
  /\ misses = [c \in Conns |-> IF c = "c1" /\ tm > 0 THEN 1 ELSE 0]
  /\ tickAt = [c \in Conns |-> IF c # "c1" THEN NoTick
                                ELSE IF tm = 0 THEN heartbeatIntervalMs ELSE tm]
  /\ beats = 0
  /\ allocs = << >>
  /\ initMark = [c \in Conns |->
                   IF c = "c1" THEN [at |-> 1, ids |-> {"1"}, commits |-> 0] ELSE NoMark]
  /\ lastFrame = [c \in Conns |->
                    IF c = "c1"
                      THEN [Op |-> opInitialize, d |-> InitData("object", "1", << >>), at |-> 1]
                      ELSE NoFrame]
  /\ bcMark = NoBcMark
  /\ regAt = [c \in Conns |-> 0]
  /\ droppedAt = [c \in Conns |-> NoTick]
  /\ maxSilence = [c \in Conns |-> IF c = "c1" THEN tm ELSE 0]
  /\ advances = tm \div heartbeatIntervalMs
  /\ writeMu = [c \in Conns |-> NoThread]
  /\ onSock = [c \in Conns |-> {}]
  /\ mainPc = "idle"
  /\ InitOther

\* the state when the first Initialize of c1 has been answered
InitConnected(n, k) == InitConnectedAt(n, k, 0)

\* the time of the third tick of a connection that never sent a heartbeat
thirdTick == 3 * heartbeatIntervalMs

InitClose == InitConnected(MaxCloseEvents, 0)

\* Server.Close is called while the consumer delivers gateway events to the
\* client and the client may hang up
NextClose ==
  \/ handleRawPresenceSet("g1")
  \/ broadcastLock("g1")
  \/ \E w \in WatcherIds : broadcastSend("g1", w)
  \/ broadcastUnlock("g1")
  \/ readReturn("c1")
  \/ sendEvent("bc")
  \/ stateMuFree /\ writeJSON("bc")
  \/ beginWrite("bc")
  \/ endWrite("bc")
  \/ stateMuFree /\ cleanupDelete("c1")
  \/ beginClose("c1")
  \/ endClose("c1")
  \/ stateMuFree /\ wsBroadcast
  \/ wsBroadcastSend
  \/ serverCloseCancel
  \/ wsConsumerExit
  \/ beginServerClose
  \/ endServerClose
  \/ \E payload \in ProtoPresencePayloads : handleRawPresence("g1", payload)

SpecClose == InitClose /\ [][NextClose]_vars /\ WF_vars(NextClose)

\* the step in which Server.Close returns
CloseReturns == mainPc = "closing" /\ mainPc' = "closed"

\* a thread is inside a write to a connection Close has closed
InFlight(th) ==
  wsPc[th] \in {"WriteJSON", "writing", "controlling"} /\ out[th].conn \in closedConns

\* C29: when Server.Close returns the store has no watcher of the server and
\* the registry is empty; from then on no frame is written to a connection
\* that Close found registered, the broadcast consumer ends and the writers
\* in flight return; the channel is closed once however often Close is called
C29_CloseShutsDown ==
  /\ [][CloseReturns => ServerWatcher \notin watchers' /\ state' = << >>]_vars
  /\ [][closes > 0 => \A c \in closedConns : frames'[c] = frames[c]]_vars
  /\ [](closed[ServerWatcher] <= 1)
  /\ (closes > 0) ~> (wsPc["bc"] = "ended" /\ \A th \in Threads : ~InFlight(th))

\* Close has returned while a write to one of its connections was in flight
C29_Witness == closes > 0 /\ \E th \in Threads : InFlight(th)
(***************************************************************************)
(* SpecQuiet: member, chunk and presence events reach the store while a    *)
(* client subscribed to user 1 is connected and the consumer delivers.     *)
(***************************************************************************)
InitQuiet == InitConnected(MaxQuietEvents, 0)

NextQuiet ==
  \/ \E payload \in MergePresencePayloads : handleRawPresence("g1", payload)
  \/ handleRawPresenceSet("g1")
  \/ \E m \in MergeMemberPayloads : MergeRawUser("g1", m[1], m[2])
  \/ \E chunk \in MergeChunkPayloads : TakeChunk("g1", chunk)
  \/ MergeChunkRawMembers("g1")
  \/ UpsertChunkPresences("g1")
  \/ BroadcastPresence("g1")
  \/ broadcastLock("g1")
  \/ \E w \in WatcherIds : broadcastSend("g1", w)
  \/ broadcastUnlock("g1")
  \/ wsBroadcast
  \/ wsBroadcastSend
  \/ sendEvent("bc")
  \/ writeJSON("bc")
  \/ connWriteJSON("bc")

SpecQuiet == InitQuiet /\ [][NextQuiet]_vars

\* the step is a call of SetPresenceQuiet or UpdatePresenceQuiet by task t
QuietCalled(t) ==
  /\ op'[t] \in {"SetPresenceQuiet", "UpdatePresenceQuiet"}
  /\ events' # events \/ work'[t] # work[t]

\* the step handles a GUILD_MEMBER_ADD or GUILD_MEMBER_UPDATE in task t
MemberHandled(t) == events' # events /\ kind'[t] = "GUILD_MEMBER_UPDATE"

\* nothing has been emitted: channels, pending events, replicator tasks, frames
NothingEmitted ==
  UNCHANGED <<chans, evt, commits, fanout, goroutines, published, frames, out, seq, wsPc>>

\* C31: a call of SetPresenceQuiet or UpdatePresenceQuiet changes the entry of
\* its user id only, puts no event on a channel and calls no replicator; the
\* handler of a member event returns without a store event or a frame
C31_QuietWrites ==
  [][\A t \in Tasks :
       /\ QuietCalled(t) =>
            /\ NothingEmitted
            /\ uid'[t] \in DOMAIN data'
            /\ \A u \in (DOMAIN data \cup DOMAIN data') \ {uid'[t]} :
                 u \in DOMAIN data /\ u \in DOMAIN data' /\ data'[u] = data[u]
       /\ MemberHandled(t) => NothingEmitted /\ pc'[t] = "idle"]_vars

\* a member event has created the entry of user 1, to whom c1 is subscribed
\* through the server's watcher, and c1 has got nothing but Hello
C31_Witness ==
  /\ kind["g1"] = "GUILD_MEMBER_UPDATE"
  /\ op["g1"] = "UpdatePresenceQuiet"
  /\ "1" \in DOMAIN data
  /\ "1" \in Subs("c1")
  /\ ServerWatcher \in watchers
  /\ Len(frames["c1"]) = 1
(***************************************************************************)
(* SpecCleanup: the peer of a connected client goes away while an event is *)
(* delivered, the client's frames are handled and the watcher ticks.       *)
(***************************************************************************)
cleanupRest == <<storeVars, taskVars, histVars, clientVars, seq, frames, wsEvt, targets,
                 initTodo, out, inits, initLimit, hbVars, wsHist, muVars, callVars, limitVars,
                 panicVars, closeVars>>

\* the peer of connection c goes away: from now on ReadJSON, WriteJSON and
\* WriteControl on its socket return an error
breakSocket(c) ==
  /\ c \in DOMAIN state
  /\ c \in sockOpen
  /\ c \notin broken
  /\ broken' = broken \cup {c}
  /\ UNCHANGED <<state, sockOpen, wsPc, cleaner, watchPc, cleanupRest>>

\* the socket of c takes frames from the client and from the server
Healthy(c) == c \in sockOpen /\ c \notin broken

\* writeJSON, lines 255-263, and writeControl, lines 267-275, return an
\* error: the connection is not registered, or the write on the socket fails;
\* sendEvent, lines 248-251, then starts cleanupConn in a goroutine, sendHello,
\* the heartbeat acknowledgement and closeWithCode drop the error
writeFails(th) ==
  /\ \/ wsPc[th] = "writeJSON" /\ out[th].conn \notin DOMAIN state
     \/ wsPc[th] = "WriteJSON" /\ ~Healthy(out[th].conn)
     \/ wsPc[th] = "closeWithCode" /\ (out[th].conn \notin DOMAIN state \/ ~Healthy(out[th].conn))
  /\ wsPc' = [wsPc EXCEPT ![th] = IF wsPc[th] = "closeWithCode" THEN "cleanupConn"
                                  ELSE AfterWrite(th)]
  /\ cleaner' = IF out[th].msg.Op = opEvent
                  THEN [cleaner EXCEPT ![out[th].conn].pending = @ + 1]
                  ELSE cleaner
  /\ UNCHANGED <<state, sockOpen, broken, watchPc, cleanupRest>>

\* sendEvent, line 250: the cleanupConn started with go runs
goCleanupConn(c) ==
  /\ cleaner[c].pending > 0
  /\ cleanupConn(c)
  /\ cleaner' = [cleaner EXCEPT ![c] = [pending |-> @.pending - 1, ran |-> @.ran + 1]]
  /\ UNCHANGED <<wsPc, broken, watchPc, cleanupRest>>

InitCleanup == InitConnected(MaxCleanupEvents, MaxCleanupInits)

NextCleanup ==
  \/ handleRawPresenceSet("g1")
  \/ broadcastLock("g1")
  \/ \E w \in WatcherIds : broadcastSend("g1", w)
  \/ broadcastUnlock("g1")
  \/ wsBroadcast
  \/ wsBroadcastSend
  \/ sendEvent("bc")
  \/ \E th \in {"bc", "c1"} : out[th].conn \in DOMAIN state /\ writeJSON(th)
  \/ \E th \in {"bc", "c1"} : Healthy(out[th].conn) /\ connWriteJSON(th)
  \/ \E th \in {"bc", "c1"} : writeFails(th)
  \/ Healthy("c1") /\ handleInit("c1", InitData("null", "", << >>))
  \/ "c1" \in DOMAIN state /\ Healthy("c1") /\ writeControl("c1")
  \/ closeWithCode("c1")
  \/ ~Healthy("c1") /\ readError("c1")
  \/ watchHeartbeats("c1")
  \/ advances < MaxCleanupTicks /\ Advance(heartbeatIntervalMs)
  \/ breakSocket("c1")
  \/ goCleanupConn("c1")
  \/ \E payload \in ProtoPresencePayloads : handleRawPresence("g1", payload)


\* a step of a task that is neither a new input nor the passing of time
IoStep ==
  \/ handleRawPresenceSet("g1")
  \/ broadcastLock("g1")
  \/ \E w \in WatcherIds : broadcastSend("g1", w)
  \/ broadcastUnlock("g1")
  \/ wsBroadcast
  \/ wsBroadcastSend
  \/ sendEvent("bc")
  \/ \E th \in {"bc", "c1"} : out[th].conn \in DOMAIN state /\ writeJSON(th)
  \/ \E th \in {"bc", "c1"} : Healthy(out[th].conn) /\ connWriteJSON(th)
  \/ \E th \in {"bc", "c1"} : writeFails(th)
  \/ "c1" \in DOMAIN state /\ Healthy("c1") /\ writeControl("c1")
  \/ closeWithCode("c1")
  \/ ~Healthy("c1") /\ readError("c1")
  \/ goCleanupConn("c1")

\* the tasks keep running; no event, frame or tick is ever forced
SpecCleanup == InitCleanup /\ [][NextCleanup]_vars /\ WF_vars(IoStep)

\* the step runs cleanupConn for c: the reader's exit, closeWithCode, the
\* heartbeat timeout or the cleanup sendEvent started
CleanupRuns(c) ==
  \/ wsPc[c] = "read" /\ wsPc'[c] = "closed"
  \/ wsPc[c] = "cleanupConn" /\ wsPc'[c] # "cleanupConn"
  \/ droppedAt'[c] # droppedAt[c]
  \/ cleaner'[c].ran # cleaner[c].ran

\* connection c is neither registered nor open
Gone(c) == c \notin DOMAIN state /\ c \notin sockOpen

NextCancel ==
  \/ \E t \in Tasks : \E payload \in FanoutPresencePayloads : handleRawPresence(t, payload)
  \/ \E t \in Tasks : handleRawPresenceSet(t)
  \/ \E t \in Tasks : \E chunk \in FanoutChunkPayloads : TakeChunk(t, chunk)
  \/ \E t \in Tasks : UpsertChunkPresences(t)
  \/ \E t \in Tasks : BroadcastPresence(t)
  \/ \E t \in Tasks : broadcastLock(t)
  \/ \E t \in Tasks : \E w \in WatcherIds : broadcastSend(t, w)
  \/ \E t \in Tasks : broadcastUnlock(t)
  \/ \E c \in Clients : Subscribe(c)
  \/ cancel("s1")

SpecCancel == InitFanout /\ [][NextCancel]_vars

\* the step is the select of broadcast for watcher w, run by task t
SendsTo(t, w) == pc[t] = "send" /\ w \in todo[t] /\ w \notin todo'[t]

\* C33: every send of a fan-out (of SetPresence, RemovePresence or
\* BroadcastPresence) goes to a channel that is in the watcher set and open;
\* a channel is closed only while no fan-out holds the read lock, and a closed
\* channel is no longer in the watcher set
C33_NoSendOnClosed ==
  /\ [][\A t \in Tasks : \A w \in WatcherIds :
          SendsTo(t, w) => w \in watchers /\ closed[w] = 0]_vars
  /\ [][closed' # closed => rlock = {}]_vars
  /\ [](\A w \in WatcherIds : closed[w] > 0 => w \notin watchers)

\* a fan-out has sent to the other subscriber after s1 cancelled, before
\* the fan-out took the read lock
C33_Witness ==
  \E t \in Tasks :
    /\ pc[t] = "send"
    /\ sub["s1"] # NoWatcher /\ closed[sub["s1"]] = 1
    /\ sub["s2"] # NoWatcher /\ delivered[t][sub["s2"]].sent # << >>
    /\ sub["s1"] \notin fanout[t]
    /\ op[t] \in {"RemovePresence", "SetPresence", "BroadcastPresence"}

(***************************************************************************)
(* The locks.  The critical sections of the store's mutex, of stateMu and  *)
(* of a connection's heartbeat mutex hold no call that waits, and are one  *)
(* step each; three holders span steps: a fan-out holds the store's read   *)
(* lock over its loop, a writer or a cleanupConn holds writeMu over its    *)
(* call on the socket, Server.Close holds stateMu over its Close calls.    *)
(* Here watchHeartbeats takes its locks step by step as well.              *)
(***************************************************************************)
watchRest == <<storeVars, taskVars, histVars, clientVars, seq, frames, wsPc, wsEvt, targets,
               initTodo, out, inits, initLimit, wsHist, callVars, limitVars, panicVars,
               closeVars, broken, cleaner>>

\* watchHeartbeats, lines 215-236: a tick; the lookup under stateMu, the
\* counters under the heartbeat mutex, and the decision to call cleanupConn
watchTick(c) ==
  /\ watchPc[c] = "tick"
  /\ tickAt[c] # NoTick
  /\ now = tickAt[c]
  /\ IF c \notin DOMAIN state
       THEN /\ tickAt' = [tickAt EXCEPT ![c] = NoTick]
            /\ watchPc' = [watchPc EXCEPT ![c] = "ended"]
            /\ UNCHANGED <<misses, droppedAt>>
       ELSE LET timeSinceBeat == now - lastHeartbeat[c]
                expected == heartbeatIntervalMs + heartbeatJitter
                m == IF timeSinceBeat > expected THEN misses[c] + 1 ELSE 0
            IN /\ misses' = [misses EXCEPT ![c] = m]
               /\ IF m >= maxHeartbeatMisses \/ timeSinceBeat > heartbeatTimeoutMs
                    THEN /\ tickAt' = [tickAt EXCEPT ![c] = NoTick]
                         /\ droppedAt' = [droppedAt EXCEPT ![c] = now]
                         /\ watchPc' = [watchPc EXCEPT ![c] = "cleanupConn"]
                    ELSE /\ tickAt' = [tickAt EXCEPT ![c] = now + heartbeatIntervalMs]
                         /\ UNCHANGED <<droppedAt, watchPc>>
  /\ UNCHANGED <<state, sockOpen, now, lastHeartbeat, beats, regAt, maxSilence, advances,
                 muVars, watchRest>>

\* cleanupConn called by watchHeartbeats, lines 311-314: the lookup and the
\* delete under stateMu
watchDelete(c) ==
  /\ watchPc[c] = "cleanupConn"
  /\ state' = Delete(state, c)
  /\ watchPc' = [watchPc EXCEPT ![c] = IF c \in DOMAIN state THEN "closeLocked"
                                       ELSE "closeBare"]
  /\ UNCHANGED <<sockOpen, hbVars, muVars, watchRest>>

\* cleanupConn called by watchHeartbeats, lines 315-320: conn.Close begins,
\* under writeMu when the connection was registered
watchBeginClose(c) ==
  /\ \/ /\ watchPc[c] = "closeLocked"
        /\ writeMu[c] = NoThread
        /\ writeMu' = [writeMu EXCEPT ![c] = "watcher"]
        /\ watchPc' = [watchPc EXCEPT ![c] = "closing"]
     \/ /\ watchPc[c] = "closeBare"
        /\ watchPc' = [watchPc EXCEPT ![c] = "closingBare"]
        /\ UNCHANGED writeMu
  /\ onSock' = [onSock EXCEPT ![c] = @ \cup {"watcher"}]
  /\ UNCHANGED <<state, sockOpen, hbVars, mainPc, watchRest>>

\* a cleanupConn that returns from conn.Close without writeMu.Unlock
watchEndCloseKeepsLock(c) ==
  /\ watchPc[c] \in {"closing", "closingBare"}
  /\ sockOpen' = sockOpen \ {c}
  /\ onSock' = [onSock EXCEPT ![c] = @ \ {"watcher"}]
  /\ watchPc' = [watchPc EXCEPT ![c] = "ended"]
  /\ UNCHANGED <<state, hbVars, writeMu, mainPc, watchRest>>

\* cleanupConn called by watchHeartbeats, lines 317-321: conn.Close returns,
\* writeMu.Unlock; watchHeartbeats returns (line 237)
watchEndClose(c) ==
  /\ watchPc[c] \in {"closing", "closingBare"}
  /\ sockOpen' = sockOpen \ {c}
  /\ writeMu' = IF watchPc[c] = "closing" THEN [writeMu EXCEPT ![c] = NoThread] ELSE writeMu
  /\ onSock' = [onSock EXCEPT ![c] = @ \ {"watcher"}]
  /\ watchPc' = [watchPc EXCEPT ![c] = "ended"]
  /\ UNCHANGED <<state, hbVars, mainPc, watchRest>>

\* c1 is connected and has been silent up to its third tick, which is due
InitLocks == InitConnectedAt(MaxLockEvents, MaxLockInits, thirdTick)

\* a step of a goroutine that is inside a call: it takes or waits for a
\* lock, works under it, or returns
LockStep ==
  \/ handleRawPresenceSet("g1")
  \/ broadcastLock("g1")
  \/ \E w \in WatcherIds : broadcastSend("g1", w)
  \/ broadcastUnlock("g1")
  \/ sendEvent("bc")
  \/ stateMuFree /\ writeJSON("bc")
  \/ beginWrite("bc")
  \/ endWrite("bc")
  \/ stateMuFree /\ beginControl("c1")
  \/ endControl("c1")
  \/ stateMuFree /\ cleanupDelete("c1")
  \/ beginClose("c1")
  \/ endClose("c1")
  \/ wsBroadcastSend
  \/ stateMuFree /\ watchDelete("c1")
  \/ watchBeginClose("c1")
  \/ watchEndClose("c1")
  \/ beginServerClose
  \/ endServerClose

\* gateway events, frames and hang-ups of the client, the tick and Server.Close
\* arrive while the goroutines run
NextLocks ==
  \/ LockStep
  \/ stateMuFree /\ wsBroadcast
  \/ wsConsumerExit
  \/ stateMuFree /\ handleInit("c1", InitData("null", "", << >>))
  \/ readReturn("c1")
  \/ stateMuFree /\ watchTick("c1")
  \/ serverCloseCancel
  \/ \E payload \in ProtoPresencePayloads : handleRawPresence("g1", payload)

SpecLocks == InitLocks /\ [][NextLocks]_vars

\* a goroutine is inside a call of the store or of the server
Busy ==
  \/ pc["g1"] # "idle"
  \/ wsPc["bc"] \notin {"idle", "ended"}
  \/ wsPc["c1"] \notin {"read", "closed"}
  \/ watchPc["c1"] \notin {"tick", "ended"}
  \/ mainPc \in {"cancelled", "closing"}

\* the goroutines that wait for the write mutex of connection c
WaitsForWrite(c) ==
  {th \in {"bc", "c1"} : wsPc[th] = "WriteJSON" /\ out[th].conn = c}
    \cup (IF wsPc[c] = "closeLocked" THEN {c} ELSE {})
    \cup (IF watchPc[c] = "closeLocked" THEN {"watcher"} ELSE {})

\* C34: whenever a goroutine is inside a call, some goroutine inside a call
\* can take a step: no set of goroutines waits for one another's locks; the
\* write mutex of a connection is held only by a goroutine that is inside
\* its call on the socket, and the holder of the store's read lock is inside
\* its loop
C34_DeadlockFree ==
  /\ [](Busy => ENABLED LockStep)
  /\ [](\A c \in Conns : writeMu[c] # NoThread => writeMu[c] \in onSock[c])
  /\ [](\A t \in rlock : pc[t] = "send")

\* the watcher waits for the write mutex of c1 while the consumer is inside
\* its write to c1, the reader has left the read loop and Server.Close has
\* been called
C34_Witness ==
  /\ WaitsForWrite("c1") # {}
  /\ writeMu["c1"] = "bc"
  /\ watchPc["c1"] \in {"closeLocked", "closeBare"}
  /\ mainPc = "cancelled"

(***************************************************************************)
(* SpecRace: the session runs each handler in a goroutine of its own       *)
(* (part_001, lines 56-73: AddHandler, no SyncEvents), so a PRESENCE_UPDATE *)
(* and a GUILD_MEMBER_UPDATE for one user are handled by two tasks at once. *)
(***************************************************************************)
NextRace ==
  \/ \E t \in Tasks : \E payload \in MergePresencePayloads : handleRawPresence(t, payload)
  \/ \E t \in Tasks : handleRawPresenceSet(t)
  \/ \E t \in Tasks : \E m \in MergeMemberPayloads : MergeRawUser(t, m[1], m[2])
  \/ \E t \in Tasks : broadcastLock(t)
  \/ \E t \in Tasks : \E w \in WatcherIds : broadcastSend(t, w)
  \/ \E t \in Tasks : broadcastUnlock(t)
  \/ Subscribe("s1")

SpecRace == InitMerge /\ [][NextRace]_vars

\* the step is the SetPresence of task t's PRESENCE_UPDATE handler
PresenceStored(t) == pc[t] = "SetPresence" /\ pc'[t] = "broadcast"

\* C35: the SetPresence of a PRESENCE_UPDATE handler keeps every identity
\* field the store holds for the user at that moment, so that the fields a
\* member event wrote are there when both handlers have returned, however
\* the two are interleaved
C35_MemberFieldsKept ==
  [][\A t \in Tasks : PresenceStored(t) /\ uid[t] \in DOMAIN data =>
       \A f \in IdentityFields :
          data[uid[t]].DiscordUser[f] # "" => data'[uid[t]].DiscordUser[f] # ""]_vars

(***************************************************************************)
(* SpecStale: connection c1 is subscribed to user 1; the gateway task      *)
(* updates user 1 while the client sends Initialize for user 1 again.      *)
(***************************************************************************)
InitStale == InitConnected(MaxStaleEvents, MaxStaleInits)

NextStale ==
  \/ \E payload \in MergePresencePayloads : handleRawPresence("g1", payload)
  \/ handleRawPresenceSet("g1")
  \/ broadcastLock("g1")
  \/ \E w \in WatcherIds : broadcastSend("g1", w)
  \/ broadcastUnlock("g1")
  \/ handleInit("c1", InitData("object", "1", << >>))
  \/ handleInitState("c1")
  \/ \E th \in {"bc", "c1"} : sendEvent(th)
  \/ \E th \in {"bc", "c1"} : writeJSON(th)
  \/ \E th \in {"bc", "c1"} : connWriteJSON(th)
  \/ wsBroadcast
  \/ wsBroadcastSend

SpecStale == InitStale /\ [][NextStale]_vars

\* the op-0 frames for user u among the frames written to connection c
FramesFor(c, u) ==
  {i \in DOMAIN frames[c] : frames[c][i].Op = opEvent /\ frames[c][i].UserID = u}

\* the greatest element of a non-empty set of numbers
Latest(S) == CHOOSE i \in S : \A j \in S : j <= i

\* no handler, fan-out, delivery or Initialize is under way
Settled36 ==
  /\ \A t \in Tasks : pc[t] = "idle"
  /\ chans[ServerWatcher] = << >>
  /\ wsPc["bc"] = "idle"
  /\ wsPc["c1"] = "read"

\* C36: when the handlers, the consumer and the reader have all returned,
\* the last op-0 frame for user u on a connection subscribed to u carries
\* the value the store holds for u; and no INIT_STATE frame for u follows a
\* PRESENCE_UPDATE frame for u that carries another value while the store
\* holds that other value
C36_LastFrameFresh ==
  /\ [](Settled36 =>
         \A u \in DOMAIN data :
           u \in Subs("c1") /\ FramesFor("c1", u) # {} =>
             frames["c1"][Latest(FramesFor("c1", u))].Data.v = data[u])
  /\ [](\A u \in DOMAIN data : \A i, j \in FramesFor("c1", u) :
          /\ i < j
          /\ frames["c1"][i].T = "PRESENCE_UPDATE"
          /\ frames["c1"][j].T = "INIT_STATE"
          /\ frames["c1"][i].Data.v = data[u]
          => frames["c1"][j].Data.v = data[u])

(***************************************************************************)
(* SpecSeq: the consumer and the reader of c1 both send op-0 frames to c1. *)
(***************************************************************************)
InitSeq == InitConnected(MaxSeqEvents, MaxSeqInits)

NextSeq ==
  \/ \E payload \in ProtoPresencePayloads : handleRawPresence("g1", payload)
  \/ handleRawPresenceSet("g1")
  \/ broadcastLock("g1")
  \/ \E w \in WatcherIds : broadcastSend("g1", w)
  \/ broadcastUnlock("g1")
  \/ handleInit("c1", InitData("object", "1", << >>))
  \/ handleInitState("c1")
  \/ \E th \in {"bc", "c1"} : sendEvent(th)
  \/ \E th \in {"bc", "c1"} : writeJSON(th)
  \/ \E th \in {"bc", "c1"} : connWriteJSON(th)
  \/ wsBroadcast
  \/ wsBroadcastSend

SpecSeq == InitSeq /\ [][NextSeq]_vars

\* the op-0 frames among the frames written to connection c
Op0Frames(c) == {i \in DOMAIN frames[c] : frames[c][i].Op = opEvent}

\* C37 as stated: on a connection every op-0 frame carries a greater seq
\* than the op-0 frames written before it
C37_SeqOrder ==
  \A c \in Conns : \A i, j \in Op0Frames(c) :
    i < j => frames[c][i].Seq < frames[c][j].Seq

\* C37: on a connection the op-0 frames of one sender (the INIT_STATE frames
\* of its reader, the PRESENCE_UPDATE frames of the broadcast consumer) are
\* written in strictly increasing seq order, and no two op-0 frames carry
\* the same seq
C37_SeqOrderPerSender ==
  \A c \in Conns : \A i, j \in Op0Frames(c) :
    i < j => /\ frames[c][i].Seq # frames[c][j].Seq
             /\ frames[c][i].T = frames[c][j].T => frames[c][i].Seq < frames[c][j].Seq

\* c1 got a frame of the reader after a frame of the consumer that carries a
\* greater seq, and two frames of the consumer
C37_Witness ==
  \E i, j, k \in Op0Frames("c1") :
    /\ i < j /\ j < k
    /\ frames["c1"][i].T = "PRESENCE_UPDATE"
    /\ frames["c1"][j].T = "PRESENCE_UPDATE"
    /\ frames["c1"][k].T = "INIT_STATE"
    /\ frames["c1"][k].Seq < frames["c1"][j].Seq

(***************************************************************************)
(* SpecBlocked: the peer of c1 has stopped reading, so that a WriteJSON on *)
(* c1 does not return (the server sets no write deadline); c1 has been     *)
(* silent up to its third tick.  A second client connects as c2 and        *)
(* subscribes to the same user.  The locks are taken step by step.         *)
(***************************************************************************)
InitBlocked == InitConnectedAt(MaxBlockedEvents, MaxBlockedInits, thirdTick)

\* a step of a goroutine of the server; a write to c1 never returns
BlockedStep ==
  \/ handleRawPresenceSet("g1")
  \/ broadcastLock("g1")
  \/ \E w \in WatcherIds : broadcastSend("g1", w)
  \/ broadcastUnlock("g1")
  \/ wsBroadcast
  \/ wsBroadcastSend
  \/ goWatchHeartbeats("c2")
  \/ handleInitState("c2")
  \/ \E th \in {"bc", "c2"} : sendEvent(th)
  \/ \E th \in {"bc", "c2"} : writeJSON(th)
  \/ \E th \in {"bc", "c2"} : beginWrite(th)
  \/ \E th \in {"bc", "c2"} : out[th].conn # "c1" /\ endWrite(th)
  \/ watchTick("c1")
  \/ watchDelete("c1")
  \/ watchBeginClose("c1")
  \/ watchEndClose("c1")

NextBlocked ==
  \/ BlockedStep
  \/ wsServeHTTP("c2")
  \/ handleInit("c2", InitData("object", "1", << >>))
  \/ \E payload \in ProtoPresencePayloads : handleRawPresence("g1", payload)

SpecBlocked == InitBlocked /\ [][NextBlocked]_vars

\* a write to connection c has begun and not returned
WriteHangs(c) == \E th \in Threads : wsPc[th] = "writing" /\ out[th].conn = c

\* the consumer holds an event it has not yet sent to connection c
Owes(c) == wsPc["bc"] # "idle" /\ (c \in targets \/ out["bc"].conn = c)

\* C38: when a write to c1 hangs and no goroutine can take a step, the
\* consumer owes c2 no event, and c1 is closed if its watcher has decided to
\* drop it
C38_BlockedWriteHarmless ==
  [](WriteHangs("c1") /\ ~ENABLED BlockedStep =>
       /\ ~Owes("c2")
       /\ droppedAt["c1"] # NoTick => "c1" \notin sockOpen)

(***************************************************************************)
(* The miss counter against the silence rule.                              *)
(***************************************************************************)
\* the step is a tick of the watcher of c that finds c registered
Ticks(c) == tickAt[c] # NoTick /\ tickAt'[c] # tickAt[c] /\ c \in DOMAIN state

\* the client of c has sent no Heartbeat since c was registered
NeverBeat(c) == beats = 0 /\ lastHeartbeat[c] = regAt[c]

\* how long after registerConn the ticker of c's watcher was made.  The
\* Hello write and the start of the goroutine lie between the two readings
\* of the clock (lines 115-117, 123, 214), so on the server it is not zero
StartDelay(c) == (tickAt[c] - regAt[c]) % heartbeatIntervalMs

Writes(c, o) == Len(frames'[c]) = Len(frames[c]) + 1 /\ frames'[c][Len(frames'[c])].Op = o

\* C40: the first frame written to a connection is the Hello frame and no
\* later one is; an op-0 frame is written to a connection only after
\* handleInit has given it a non-empty subscription set
C40_HelloThenInit ==
  /\ [](\A c \in Conns : \A i \in DOMAIN frames[c] : frames[c][i].Op = opHello <=> i = 1)
  /\ [][\A c \in Conns : Writes(c, opEvent) => initMark[c] # NoMark]_vars

\* a store event was committed and delivered before the connection's
\* Initialize; the connection got Hello first and an op-0 frame afterwards
C40_Witness ==
  /\ initMark["c1"] # NoMark
  /\ initMark["c1"].commits > 0
  /\ bcMark.taken
  /\ bcMark.at["c1"] <= initMark["c1"].at
  /\ Len(frames["c1"]) > 1
  /\ frames["c1"][1].Op = opHello
  /\ \E i \in DOMAIN frames["c1"] : frames["c1"][i].Op = opEvent

====
